---- MODULE Spec2Model ----
(***************************************************************************)
(* The LLM export engine of memoria-cursor (tools/export.py): grouping,    *)
(* the markdown / text / JSON renderers and the chunked writer.            *)
(*                                                                         *)
(* Python strings are TLA+ strings (Len, \o and SubSeq act on them).       *)
(* Offsets in the definitions are Python's 0-based offsets; Slice turns a  *)
(* Python slice into SubSeq.  Optional values are sequences of length at   *)
(* most one: None is <<>>, a present value v is <<v>>.                     *)
(***************************************************************************)
EXTENDS Integers, Sequences, FiniteSets, TLC

(***************************************************************************)
(* Bounds of the model.                                                    *)
(***************************************************************************)
\* a synthetic document is at most MaxPieces pieces long
MaxPieces == 3
\* max_chars handed to _write_chunked ranges over -1 .. MaxCharsBound
MaxCharsBound == 10
\* an export holds at most MaxEntries entries
MaxEntries == 2
\* a chunked export is asked for max_chars = k * CharStep, k in 1 .. MaxSteps,
\* or for max_tokens = TokenBudget
CharStep == 60
MaxSteps == 4
TokenBudget == 25
\* an Entry is constructed with at most MaxTags tags
MaxTags == 2
\* the calls made on the project store in one run
MaxCalls == 4
\* the entries in the store that is listed
MaxStored == 3

VARIABLES
    entries,        \* export_for_llm: entries, as returned by list_entries
    output_format,  \* export_for_llm: output_format
    include_git,    \* export_for_llm: include_git
    group_by,       \* export_for_llm: group_by
    chunked,        \* export_for_llm: chunked
    arg_max_chars,  \* export_for_llm: max_chars (None or an integer)
    arg_max_tokens, \* export_for_llm: max_tokens (None or an integer)
    filename_base,  \* _write_chunked: filename_base
    content,        \* _write_chunked: content, the rendered document
    ext,            \* _write_chunked: ext
    max_chars,      \* _write_chunked: max_chars
    start,          \* _write_chunked: start offset of the split loop
    parts,          \* _write_chunked: parts, the segments cut so far
    widx,           \* _write_chunked: i of the write loop (next part number)
    files,          \* the export directory: the files written, in write order
    result,         \* what the call returned or raised; <<>> while it runs
    pc,             \* position of the running call
    self,           \* an Entry object: <<>> before it is constructed
    last_call,      \* the last call on the Entry: its name, argument and result
    store,          \* entries/entries.json: the entries and the metadata
    clock,          \* the calls made on the store so far: the time of day
    last_op,        \* the last call on the store: name, arguments, result
    procs           \* the create_entry calls that run side by side

\* the arguments of export_for_llm, which no step changes
args == <<entries, output_format, include_git, group_by, chunked, arg_max_chars,
          arg_max_tokens>>

\* the Entry object and its calls, which no step of an export changes
entry_vars == <<self, last_call>>

\* the project store and its calls, which neither an export nor a call on an
\* Entry object changes
store_vars == <<store, clock, last_op, procs>>

\* the state of an export, which no call on the Entry changes
export_vars == <<args, filename_base, content, ext, max_chars, start, parts, widx,
                 files, result, pc>>

vars == <<args, filename_base, content, ext, max_chars, start, parts, widx, files,
          result, pc, entry_vars, store_vars>>

(***************************************************************************)
(* Python helpers.                                                         *)
(***************************************************************************)
None == <<>>

Some(v) == <<v>>

Min2(a, b) == IF a <= b THEN a ELSE b

Max2(a, b) == IF a >= b THEN a ELSE b

SetMax(S) == CHOOSE m \in S : \A x \in S : x <= m

\* s[a:b] for 0 <= a <= b <= len(s)
Slice(s, a, b) == SubSeq(s, a + 1, b)

\* s.rfind(pat): the highest 0-based offset at which pat occurs in s, or -1
RFind(s, pat) ==
    LET hits == {i \in 0..(Len(s) - Len(pat)) : Slice(s, i, i + Len(pat)) = pat}
    IN  IF hits = {} THEN -1 ELSE SetMax(hits)

\* ''.join(ss)
RECURSIVE JoinStrings(_)
JoinStrings(ss) ==
    IF ss = <<>> THEN "" ELSE Head(ss) \o JoinStrings(Tail(ss))

\* the path of a file of the export directory
\* no call on an Entry has been made
NoCall == [op |-> "", arg |-> "", ret |-> "None"]

\* no Entry object is under consideration
NoEntryObject == self = None /\ last_call = NoCall

\* datetime.now().isoformat() when n calls were made on the store before
NowLocal(n) == "T" \o ToString(n)

\* datetime.now(timezone.utc).isoformat() at the same moment
NowUtc(n) == "T" \o ToString(n) \o "+00:00"

\* entries.json as _initialize_entries_file writes it
FreshStore == [entries |-> <<>>, total_entries |-> 0, last_updated |-> NowUtc(0)]

NoOp == [op |-> "", args |-> <<>>, ret |-> <<>>]

\* a freshly initialized store on which nothing was called
NoStoreCall ==
    store = FreshStore /\ clock = 0 /\ last_op = NoOp /\ procs = <<>>

OkPath(name) == [kind |-> "path", value |-> name]

Raised(what) == [kind |-> "error", value |-> what]

(***************************************************************************)
(* LLMExporter._write_chunked                                              *)
(***************************************************************************)
MarkerMd == "\n### "

MarkerTxt == "\nENTRADA:"

MarkerRule == "\n---\n"

Markers == {MarkerMd, MarkerTxt, MarkerRule}

\* mutant of WindowEnd: the window is one character too long
WindowEndOffByOne(doc, st, mc) == Min2(st + mc + 1, Len(doc))

\* end = min(start + max_chars, content_len)
WindowEnd(doc, st, mc) == Min2(st + mc, Len(doc))

\* mutant of SepIdx: the separator rule is not searched for
SepIdxNoRule(doc, st, mc) ==
    LET slice_chunk == Slice(doc, st, WindowEnd(doc, st, mc))
    IN  Max2(RFind(slice_chunk, MarkerMd), RFind(slice_chunk, MarkerTxt))

\* sep_idx = max(rfind, rfind, rfind) over slice_chunk = content[start:end]
SepIdx(doc, st, mc) ==
    LET slice_chunk == Slice(doc, st, WindowEnd(doc, st, mc))
    IN  Max2(Max2(RFind(slice_chunk, MarkerMd), RFind(slice_chunk, MarkerTxt)),
             RFind(slice_chunk, MarkerRule))

\* mutant of Cut: a marker at offset 0 of the window is cut at as well
CutAtWindowStart(doc, st, mc) ==
    LET end == WindowEnd(doc, st, mc)
        sep_idx == SepIdx(doc, st, mc)
    IN  IF sep_idx < 0 \/ end = Len(doc) THEN end ELSE st + sep_idx

\* mutant of Cut: the cut is placed after the newline that opens the marker
CutAfterNewline(doc, st, mc) ==
    LET end == WindowEnd(doc, st, mc)
        sep_idx == SepIdx(doc, st, mc)
    IN  IF sep_idx <= 0 \/ end = Len(doc) THEN end ELSE st + sep_idx + 1

\* mutant of Cut: a window that holds no usable marker is not cut at its end
\* but extended to the next marker (or the end of the document), so that a
\* block is never subdivided
CutKeepsBlockWhole(doc, st, mc) ==
    LET end == WindowEnd(doc, st, mc)
        sep_idx == SepIdx(doc, st, mc)
        later == {p \in end..Len(doc) :
                     p = Len(doc) \/ \E m \in Markers :
                         /\ p + Len(m) <= Len(doc)
                         /\ Slice(doc, p, p + Len(m)) = m}
    IN  IF end = Len(doc) THEN end
        ELSE IF sep_idx <= 0 THEN CHOOSE p \in later : \A q \in later : p <= q
        ELSE st + sep_idx

\* the cut of one iteration of the split loop
Cut(doc, st, mc) ==
    LET end == WindowEnd(doc, st, mc)
        sep_idx == SepIdx(doc, st, mc)
    IN  IF sep_idx <= 0 \/ end = Len(doc) THEN end ELSE st + sep_idx

\* mutant of SingleName: the single file is named as a first segment
SingleNameAsPart(base, e) == base \o "_part1." \o e

SingleName(base, e) == base \o "." \o e

PartName(base, i, e) == base \o "_part" \o ToString(i) \o "." \o e

\* mutant of WriteChunked: the shortcut is taken only below max_chars
WriteChunkedStrict ==
    /\ pc = "write_chunked"
    /\ IF max_chars <= 0 \/ Len(content) < max_chars
       THEN /\ pc' = "write_single"
            /\ UNCHANGED <<start, parts>>
       ELSE /\ pc' = "split"
            /\ start' = 0
            /\ parts' = <<>>
    /\ UNCHANGED <<args, filename_base, content, ext, max_chars, widx, files, result>>
    /\ UNCHANGED <<entry_vars, store_vars>>

\* entry of _write_chunked: the single-file shortcut or the start of the split
WriteChunked ==
    /\ pc = "write_chunked"
    /\ IF max_chars <= 0 \/ Len(content) <= max_chars
       THEN /\ pc' = "write_single"
            /\ UNCHANGED <<start, parts>>
       ELSE /\ pc' = "split"
            /\ start' = 0
            /\ parts' = <<>>
    /\ UNCHANGED <<args, filename_base, content, ext, max_chars, widx, files, result>>
    /\ UNCHANGED <<entry_vars, store_vars>>

\* mutant of SplitStep: the next window starts after the separator's newline
SplitStepDropsNewline ==
    /\ pc = "split"
    /\ start < Len(content)
    /\ LET cut == Cut(content, start, max_chars)
       IN  /\ parts' = Append(parts, Slice(content, start, cut))
           /\ start' = IF cut < Len(content) THEN cut + 1 ELSE cut
           /\ IF cut < Len(content)
              THEN pc' = "split" /\ widx' = widx
              ELSE pc' = "write" /\ widx' = 1
    /\ UNCHANGED <<args, filename_base, content, ext, max_chars, files, result>>
    /\ UNCHANGED <<entry_vars, store_vars>>

\* one iteration of: while start < content_len
SplitStep ==
    /\ pc = "split"
    /\ start < Len(content)
    /\ LET cut == Cut(content, start, max_chars)
       IN  /\ parts' = Append(parts, Slice(content, start, cut))
           /\ start' = cut
           /\ IF cut < Len(content)
              THEN pc' = "split" /\ widx' = widx
              ELSE pc' = "write" /\ widx' = 1
    /\ UNCHANGED <<args, filename_base, content, ext, max_chars, files, result>>
    /\ UNCHANGED <<entry_vars, store_vars>>

\* mutant of WritePart: the parts are numbered from 0
WritePartFromZero ==
    /\ pc = "write"
    /\ widx <= Len(parts)
    /\ files' = Append(files, [name |-> PartName(filename_base, widx - 1, ext),
                               text |-> parts[widx]])
    /\ widx' = widx + 1
    /\ IF widx = Len(parts)
       THEN /\ pc' = "done"
            /\ result' = Some(OkPath(PartName(filename_base, 0, ext)))
       ELSE UNCHANGED <<pc, result>>
    /\ UNCHANGED <<args, filename_base, content, ext, max_chars, start, parts>>
    /\ UNCHANGED <<entry_vars, store_vars>>

\* one iteration of: for i, part in enumerate(parts, start=1), and the return
WritePart ==
    /\ pc = "write"
    /\ widx <= Len(parts)
    /\ files' = Append(files, [name |-> PartName(filename_base, widx, ext),
                               text |-> parts[widx]])
    /\ widx' = widx + 1
    /\ IF widx = Len(parts)
       THEN /\ pc' = "done"
            /\ result' = Some(OkPath(PartName(filename_base, 1, ext)))
       ELSE UNCHANGED <<pc, result>>
    /\ UNCHANGED <<args, filename_base, content, ext, max_chars, start, parts>>
    /\ UNCHANGED <<entry_vars, store_vars>>

\* the write of the whole document as one file, and the return of its path
WriteSingle ==
    /\ pc = "write_single"
    /\ files' = Append(files, [name |-> SingleName(filename_base, ext),
                               text |-> content])
    /\ result' = Some(OkPath(SingleName(filename_base, ext)))
    /\ pc' = "done"
    /\ UNCHANGED <<args, filename_base, content, ext, max_chars, start, parts, widx>>
    /\ UNCHANGED <<entry_vars, store_vars>>

\* the file the next write opens, and the text it is to hold
WriteTarget ==
    IF pc = "write"
    THEN [name |-> PartName(filename_base, widx, ext), text |-> parts[widx]]
    ELSE IF pc = "write_single"
    THEN [name |-> SingleName(filename_base, ext), text |-> content]
    ELSE [name |-> SingleName(filename_base, "json"), text |-> ""]

\* what a failed write leaves of its file: nothing when open() raised, the
\* file with none or a part of its text when f.write() or json.dump raised
FailedWrites ==
    {<<>>} \cup
    {<<[name |-> WriteTarget.name, text |-> SubSeq(WriteTarget.text, 1, n)]>> :
        n \in {0, Len(WriteTarget.text) - 1} \cap Nat}

\* mutant of WriteFails: a failed write removes the files written before it
WriteFailsCleansUp ==
    /\ pc \in {"write", "write_single", "write_json"}
    /\ files' = <<>>
    /\ result' = Some(Raised("OSError"))
    /\ pc' = "done"
    /\ UNCHANGED <<args, filename_base, content, ext, max_chars, start, parts, widx>>
    /\ UNCHANGED <<entry_vars, store_vars>>

\* open() or the write raises: the error propagates, nothing is cleaned up
WriteFails ==
    /\ pc \in {"write", "write_single", "write_json"}
    /\ \E left \in FailedWrites : files' = files \o left
    /\ result' = Some(Raised("OSError"))
    /\ pc' = "done"
    /\ UNCHANGED <<args, filename_base, content, ext, max_chars, start, parts, widx>>
    /\ UNCHANGED <<entry_vars, store_vars>>

(***************************************************************************)
(* Direct calls of _write_chunked on synthetic documents.                  *)
(***************************************************************************)
Pieces == {"x", "### ", MarkerMd, MarkerTxt, MarkerRule}

RECURSIVE DocsUpTo(_)
DocsUpTo(n) ==
    IF n = 0 THEN {""}
    ELSE LET shorter == DocsUpTo(n - 1)
         IN  shorter \cup {d \o p : d \in shorter, p \in Pieces}

InitChunk ==
    /\ entries = <<>>
    /\ output_format = "markdown"
    /\ include_git = TRUE
    /\ group_by = "type"
    /\ chunked = TRUE
    /\ arg_max_chars = None
    /\ arg_max_tokens = None
    /\ filename_base = "memory_export_20240102_030405"
    /\ content \in DocsUpTo(MaxPieces)
    /\ ext = "md"
    /\ max_chars \in -1..MaxCharsBound
    /\ start = 0
    /\ parts = <<>>
    /\ widx = 0
    /\ files = <<>>
    /\ result = None
    /\ pc = "write_chunked"
    /\ NoEntryObject
    /\ NoStoreCall

NextChunk == WriteChunked \/ SplitStep \/ WritePart \/ WriteSingle \/ WriteFails

SpecChunk == InitChunk /\ [][NextChunk]_vars

\* the call runs on: a step that can be taken is taken
SpecChunkFair == SpecChunk /\ WF_vars(NextChunk)

(***************************************************************************)
(* Strings: case, order, joining.                                          *)
(***************************************************************************)
LowerLetters == "abcdefghijklmnopqrstuvwxyz"

UpperLetters == "ABCDEFGHIJKLMNOPQRSTUVWXYZ"

Digits == "0123456789"

\* the characters the keys of the model hold, in code point order
AsciiOrder ==
    " #+-.0123456789:ABCDEFGHIJKLMNOPQRSTUVWXYZ_abcdefghijklmnopqrstuvwxyz"

CharAt(s, i) == SubSeq(s, i, i)

\* ord(c), up to an order-preserving renumbering
Code(c) ==
    LET at == {i \in 1..Len(AsciiOrder) : CharAt(AsciiOrder, i) = c}
    IN  IF at = {} THEN 0 ELSE CHOOSE i \in at : TRUE

\* str.upper() of one character
UpperChar(c) ==
    LET at == {i \in 1..Len(LowerLetters) : CharAt(LowerLetters, i) = c}
    IN  IF at = {} THEN c ELSE CharAt(UpperLetters, CHOOSE i \in at : TRUE)

\* s.upper()
RECURSIVE Upper(_)
Upper(s) ==
    IF Len(s) = 0 THEN ""
    ELSE UpperChar(CharAt(s, 1)) \o Upper(SubSeq(s, 2, Len(s)))

\* a < b for Python strings: lexicographic by code point
RECURSIVE StrLess(_, _)
StrLess(a, b) ==
    IF Len(b) = 0 THEN FALSE
    ELSE IF Len(a) = 0 THEN TRUE
    ELSE IF CharAt(a, 1) = CharAt(b, 1)
         THEN StrLess(SubSeq(a, 2, Len(a)), SubSeq(b, 2, Len(b)))
         ELSE Code(CharAt(a, 1)) < Code(CharAt(b, 1))

\* sep.join(ss)
RECURSIVE JoinWith(_, _)
JoinWith(sep, ss) ==
    IF ss = <<>> THEN ""
    ELSE IF Len(ss) = 1 THEN ss[1]
    ELSE ss[1] \o sep \o JoinWith(sep, Tail(ss))

\* c * n
RECURSIVE Repeat(_, _)
Repeat(c, n) == IF n <= 0 THEN "" ELSE c \o Repeat(c, n - 1)

\* s[:n]
Prefix(s, n) == SubSeq(s, 1, Min2(n, Len(s)))

AllDigits(s) ==
    \A i \in 1..Len(s) : \E j \in 1..Len(Digits) : CharAt(s, i) = CharAt(Digits, j)

\* d.get(key, default) for a dict modelled as a function on its keys
Get(d, key, default) == IF key \in DOMAIN d THEN d[key] ELSE default

(***************************************************************************)
(* Entry (core/entry.py), as the exporter reads it.                        *)
(***************************************************************************)
\* Entry.to_dict
ToDict(e) ==
    [id |-> e.entry_id, timestamp |-> e.timestamp, type |-> e.entry_type,
     title |-> e.title, content |-> e.content, tags |-> e.tags,
     files_affected |-> e.files_affected, llm_context |-> e.llm_context,
     git_info |-> e.git_info, related_entries |-> e.related_entries]

(***************************************************************************)
(* LLMExporter._group_by_type / _group_by_date / _group_by_tags.           *)
(* A dict is the sequence of its items in insertion order; a group holds   *)
(* references to entries, modelled as their indices in the entry list.     *)
(***************************************************************************)
HasKey(grouped, key) == \E j \in 1..Len(grouped) : grouped[j].key = key

\* mutant of AddToGroup: a key seen again restarts its list
AddToGroupOverwrite(grouped, key, i) ==
    IF HasKey(grouped, key)
    THEN [j \in 1..Len(grouped) |->
             IF grouped[j].key = key
             THEN [grouped[j] EXCEPT !.members = <<i>>]
             ELSE grouped[j]]
    ELSE Append(grouped, [key |-> key, members |-> <<i>>])

\* if key not in grouped: grouped[key] = []; grouped[key].append(entry)
AddToGroup(grouped, key, i) ==
    IF HasKey(grouped, key)
    THEN [j \in 1..Len(grouped) |->
             IF grouped[j].key = key
             THEN [grouped[j] EXCEPT !.members = Append(@, i)]
             ELSE grouped[j]]
    ELSE Append(grouped, [key |-> key, members |-> <<i>>])

\* mutant of SortedItems: the groups stay in insertion order
SortedItemsAsInserted(grouped) == grouped

\* sorted(grouped.items()): the keys are distinct, so the order is by key
RECURSIVE SortedItems(_)
SortedItems(grouped) ==
    IF grouped = <<>> THEN <<>>
    ELSE LET least == CHOOSE j \in 1..Len(grouped) :
                          \A k \in 1..Len(grouped) :
                              k = j \/ StrLess(grouped[j].key, grouped[k].key)
             rest == [k \in 1..(Len(grouped) - 1) |->
                         IF k < least THEN grouped[k] ELSE grouped[k + 1]]
         IN  <<grouped[least]>> \o SortedItems(rest)

\* reverse=True
Reversed(seq) == [k \in 1..Len(seq) |-> seq[Len(seq) + 1 - k]]

RECURSIVE GroupTypeFrom(_, _, _)
GroupTypeFrom(es, i, grouped) ==
    IF i > Len(es) THEN grouped
    ELSE GroupTypeFrom(es, i + 1, AddToGroup(grouped, es[i].entry_type, i))

GroupByType(es) == SortedItems(GroupTypeFrom(es, 1, <<>>))

\* whether datetime.fromisoformat(ts) succeeds: YYYY-MM-DD, optionally
\* followed by a separator character and HH:MM[:SS[.ffffff]]
IsoDateOk(d) ==
    /\ Len(d) = 10
    /\ AllDigits(SubSeq(d, 1, 4)) /\ CharAt(d, 5) = "-"
    /\ AllDigits(SubSeq(d, 6, 7)) /\ CharAt(d, 8) = "-"
    /\ AllDigits(SubSeq(d, 9, 10))
    /\ SubSeq(d, 1, 4) # "0000"
    /\ SubSeq(d, 6, 7) \in {"01", "02", "03", "04", "05", "06", "07", "08", "09",
                            "10", "11", "12"}
    /\ SubSeq(d, 9, 10) # "00"
    /\ ~StrLess(IF SubSeq(d, 6, 7) = "02" THEN "29"
                ELSE IF SubSeq(d, 6, 7) \in {"04", "06", "09", "11"} THEN "30"
                ELSE "31", SubSeq(d, 9, 10))

IsoTimeOk(t) ==
    /\ Len(t) \in {5, 8, 15}
    /\ AllDigits(SubSeq(t, 1, 2)) /\ StrLess(SubSeq(t, 1, 2), "24")
    /\ CharAt(t, 3) = ":"
    /\ AllDigits(SubSeq(t, 4, 5)) /\ StrLess(SubSeq(t, 4, 5), "60")
    /\ Len(t) >= 8 =>
           /\ CharAt(t, 6) = ":"
           /\ AllDigits(SubSeq(t, 7, 8)) /\ StrLess(SubSeq(t, 7, 8), "60")
    /\ Len(t) = 15 => (CharAt(t, 9) = "." /\ AllDigits(SubSeq(t, 10, 15)))

FromIsoFormatOk(ts) ==
    /\ Len(ts) >= 10
    /\ IsoDateOk(SubSeq(ts, 1, 10))
    /\ Len(ts) > 10 => (Len(ts) >= 12 /\ IsoTimeOk(SubSeq(ts, 12, Len(ts))))

\* mutant of DateKey: an unparsable timestamp is kept whole as the key
DateKeyWhole(ts) ==
    IF FromIsoFormatOk(ts) THEN SubSeq(ts, 1, 10)
    ELSE IF ts # "" THEN ts ELSE "unknown"

\* the group key of one entry under date grouping
DateKey(ts) ==
    IF FromIsoFormatOk(ts) THEN SubSeq(ts, 1, 10)
    ELSE IF ts # "" THEN Prefix(ts, 10) ELSE "unknown"

RECURSIVE GroupDateFrom(_, _, _)
GroupDateFrom(es, i, grouped) ==
    IF i > Len(es) THEN grouped
    ELSE GroupDateFrom(es, i + 1, AddToGroup(grouped, DateKey(es[i].timestamp), i))

GroupByDate(es) == Reversed(SortedItems(GroupDateFrom(es, 1, <<>>)))

\* for tag in entry.tags: ... grouped[tag].append(entry)
RECURSIVE AddToTags(_, _, _, _)
AddToTags(grouped, tags, t, i) ==
    IF t > Len(tags) THEN grouped
    ELSE AddToTags(AddToGroup(grouped, tags[t], i), tags, t + 1, i)

RECURSIVE GroupTagsFrom(_, _, _)
GroupTagsFrom(es, i, grouped) ==
    IF i > Len(es) THEN grouped
    ELSE GroupTagsFrom(es, i + 1, AddToTags(grouped, es[i].tags, 1, i))

GroupByTags(es) == SortedItems(GroupTagsFrom(es, 1, <<>>))

(***************************************************************************)
(* The renderers.  datetime.now() and the project directory's name are     *)
(* inputs of the environment, fixed here.  The two non-ASCII texts of the  *)
(* source are written with ASCII characters of the same length: the        *)
(* accented o of "Exportacion" / "EXPORTACION" as a plain o, the           *)
(* two-code-point warning sign of the git line as "!!".                    *)
(***************************************************************************)
NowIso == "2024-01-02T03:04:05.000006"

NowStamp == "20240102_030405"

ProjectName == "proj"

\* truthiness of an Optional[str] / Optional[dict]
Truthy(opt) == opt # None /\ Len(opt[1]) > 0

GitTruthy(opt) == opt # None /\ DOMAIN opt[1] # {}

\* the git line of an entry block, shared by both writers up to its texts
GitLine(label, git_info, pending) ==
    label \o Get(git_info, "current_commit", "N/A") \o " "
    \o "(" \o Get(git_info, "branch", "N/A") \o ")"
    \o (IF ~Get(git_info, "is_clean", FALSE) THEN pending ELSE "")
    \o "\n"

\* mutant of WriteMarkdownEntry: the git line is written whenever git_info is set
WriteMarkdownEntryAlwaysGit(entry, with_git) ==
    "### " \o entry.title \o "\n\n"
    \o "**Tipo:** " \o entry.entry_type \o "\n"
    \o "**ID:** " \o entry.entry_id \o "\n"
    \o "**Fecha:** " \o entry.timestamp \o "\n"
    \o (IF entry.tags # <<>>
        THEN "**Etiquetas:** " \o JoinWith(", ", entry.tags) \o "\n" ELSE "")
    \o (IF entry.files_affected # <<>>
        THEN "**Archivos:** " \o JoinWith(", ", entry.files_affected) \o "\n" ELSE "")
    \o (IF GitTruthy(entry.git_info)
        THEN GitLine("**Git:** ", entry.git_info[1], " !! Cambios pendientes") ELSE "")
    \o "\n"
    \o entry.content \o "\n\n"
    \o (IF Truthy(entry.llm_context)
        THEN "> **Contexto LLM:** " \o entry.llm_context[1] \o "\n\n" ELSE "")
    \o "---\n\n"

\* LLMExporter._write_markdown_entry: the text of one entry block
WriteMarkdownEntry(entry, with_git) ==
    "### " \o entry.title \o "\n\n"
    \o "**Tipo:** " \o entry.entry_type \o "\n"
    \o "**ID:** " \o entry.entry_id \o "\n"
    \o "**Fecha:** " \o entry.timestamp \o "\n"
    \o (IF entry.tags # <<>>
        THEN "**Etiquetas:** " \o JoinWith(", ", entry.tags) \o "\n" ELSE "")
    \o (IF entry.files_affected # <<>>
        THEN "**Archivos:** " \o JoinWith(", ", entry.files_affected) \o "\n" ELSE "")
    \o (IF with_git /\ GitTruthy(entry.git_info)
        THEN GitLine("**Git:** ", entry.git_info[1], " !! Cambios pendientes") ELSE "")
    \o "\n"
    \o entry.content \o "\n\n"
    \o (IF Truthy(entry.llm_context)
        THEN "> **Contexto LLM:** " \o entry.llm_context[1] \o "\n\n" ELSE "")
    \o "---\n\n"

\* LLMExporter._write_text_entry: the text of one entry block
WriteTextEntry(entry, with_git) ==
    "ENTRADA: " \o entry.title \o "\n"
    \o Repeat("-", Len(entry.title) + 9) \o "\n\n"
    \o "Tipo: " \o entry.entry_type \o "\n"
    \o "ID: " \o entry.entry_id \o "\n"
    \o "Fecha: " \o entry.timestamp \o "\n"
    \o (IF entry.tags # <<>>
        THEN "Etiquetas: " \o JoinWith(", ", entry.tags) \o "\n" ELSE "")
    \o (IF entry.files_affected # <<>>
        THEN "Archivos: " \o JoinWith(", ", entry.files_affected) \o "\n" ELSE "")
    \o (IF with_git /\ GitTruthy(entry.git_info)
        THEN GitLine("Git: ", entry.git_info[1], " [CAMBIOS PENDIENTES]") ELSE "")
    \o "\n"
    \o "CONTENIDO:\n" \o entry.content \o "\n\n"
    \o (IF Truthy(entry.llm_context)
        THEN "CONTEXTO LLM: " \o entry.llm_context[1] \o "\n\n" ELSE "")
    \o Repeat("=", 60) \o "\n\n"

\* the blocks of the entries of one group, in the group's order
RECURSIVE MarkdownBlocks(_, _, _)
MarkdownBlocks(es, members, with_git) ==
    IF members = <<>> THEN <<>>
    ELSE <<WriteMarkdownEntry(es[Head(members)], with_git)>>
         \o MarkdownBlocks(es, Tail(members), with_git)

RECURSIVE TextBlocks(_, _, _)
TextBlocks(es, members, with_git) ==
    IF members = <<>> THEN <<>>
    ELSE <<WriteTextEntry(es[Head(members)], with_git)>>
         \o TextBlocks(es, Tail(members), with_git)

\* the group_by dispatch of both builders; "" stands for the else branch
Grouped(es, by) ==
    IF by = "type" THEN GroupByType(es)
    ELSE IF by = "date" THEN GroupByDate(es)
    ELSE GroupByTags(es)

MarkdownHeading(by, key) ==
    IF by = "type" THEN "## " \o Upper(key) \o "\n\n"
    ELSE IF by = "date" THEN "## " \o key \o "\n\n"
    ELSE "## #" \o key \o "\n\n"

TextHeading(by, key) ==
    IF by = "type" THEN Upper(key) \o "\n" \o Repeat("-", Len(key)) \o "\n\n"
    ELSE IF by = "date" THEN key \o "\n" \o Repeat("-", Len(key)) \o "\n\n"
    ELSE "#" \o key \o "\n" \o Repeat("-", Len(key) + 1) \o "\n\n"

\* the strings appended to parts for the groups, in order
RECURSIVE MarkdownGroupParts(_, _, _, _)
MarkdownGroupParts(es, grouped, by, with_git) ==
    IF grouped = <<>> THEN <<>>
    ELSE <<MarkdownHeading(by, grouped[1].key)>>
         \o MarkdownBlocks(es, grouped[1].members, with_git)
         \o <<"\n">>
         \o MarkdownGroupParts(es, Tail(grouped), by, with_git)

RECURSIVE TextGroupParts(_, _, _, _)
TextGroupParts(es, grouped, by, with_git) ==
    IF grouped = <<>> THEN <<>>
    ELSE <<TextHeading(by, grouped[1].key)>>
         \o TextBlocks(es, grouped[1].members, with_git)
         \o <<"\n">>
         \o TextGroupParts(es, Tail(grouped), by, with_git)

\* the else branch: every entry, each block followed by "\n"
RECURSIVE MarkdownFlatParts(_, _, _)
MarkdownFlatParts(es, i, with_git) ==
    IF i > Len(es) THEN <<>>
    ELSE <<WriteMarkdownEntry(es[i], with_git), "\n">>
         \o MarkdownFlatParts(es, i + 1, with_git)

RECURSIVE TextFlatParts(_, _, _)
TextFlatParts(es, i, with_git) ==
    IF i > Len(es) THEN <<>>
    ELSE <<WriteTextEntry(es[i], with_git), "\n">>
         \o TextFlatParts(es, i + 1, with_git)

GroupModes == {"type", "date", "tags"}

\* LLMExporter._build_markdown_content: the parts list
MarkdownParts(es, with_git, by) ==
    <<"# Memoria del Proyecto - Exportacion para LLM\n\n",
      "**Generado:** " \o NowIso \o "\n",
      "**Total de entradas:** " \o ToString(Len(es)) \o "\n",
      "**Proyecto:** " \o ProjectName \o "\n\n">>
    \o (IF by \in GroupModes
        THEN MarkdownGroupParts(es, Grouped(es, by), by, with_git)
        ELSE MarkdownFlatParts(es, 1, with_git))

\* LLMExporter._build_markdown_content
BuildMarkdownContent(es, with_git, by) == JoinStrings(MarkdownParts(es, with_git, by))

\* LLMExporter._build_text_content: the parts list
TextParts(es, with_git, by) ==
    <<"MEMORIA DEL PROYECTO - EXPORTACION PARA LLM\n",
      Repeat("=", 60) \o "\n\n",
      "Generado: " \o NowIso \o "\n",
      "Total de entradas: " \o ToString(Len(es)) \o "\n",
      "Proyecto: " \o ProjectName \o "\n\n">>
    \o (IF by \in GroupModes
        THEN TextGroupParts(es, Grouped(es, by), by, with_git)
        ELSE TextFlatParts(es, 1, with_git))

\* LLMExporter._build_text_content
BuildTextContent(es, with_git, by) == JoinStrings(TextParts(es, with_git, by))

\* one record of export_data["entries"]
JsonEntry(entry, with_git) ==
    LET entry_data == ToDict(entry)
    IN  IF ~with_git /\ "git_info" \in DOMAIN entry_data
        THEN [k \in DOMAIN entry_data \ {"git_info"} |-> entry_data[k]]
        ELSE entry_data

\* LLMExporter._export_json: export_data, the object json.dump writes
ExportData(es, with_git) ==
    [metadata |-> [exported_at |-> NowIso, project |-> ProjectName,
                   total_entries |-> Len(es), format |-> "json",
                   include_git |-> with_git],
     entries |-> [i \in 1..Len(es) |-> JsonEntry(es[i], with_git)]]

(***************************************************************************)
(* LLMExporter.export_for_llm                                              *)
(***************************************************************************)
\* mutant of EffectiveMaxChars: the smaller bound wins when both are given
EffectiveMaxCharsMin(mc, mt) ==
    LET from_tokens == IF mt # None /\ mt[1] > 0 THEN Max2(0, mt[1] * 4) ELSE 0
    IN  IF mc # None /\ mc[1] > 0
        THEN (IF from_tokens > 0 THEN Min2(from_tokens, mc[1]) ELSE mc[1])
        ELSE from_tokens

\* effective_max_chars (lines 88-94); None and 0 are falsy
EffectiveMaxChars(mc, mt) ==
    LET from_tokens == IF mt # None /\ mt[1] > 0 THEN Max2(0, mt[1] * 4) ELSE 0
    IN  IF mc # None /\ mc[1] > 0 THEN Max2(from_tokens, mc[1]) ELSE from_tokens

\* mutant of NoEntries: the empty check is skipped
NoEntriesNever(es) == FALSE

\* if not entries (line 76)
NoEntries(es) == es = <<>>

\* mutant of Dispatch: a format that is not recognised is exported as text
DispatchDefaultsToText(fmt) ==
    IF fmt \in {"markdown", "json", "text"} THEN fmt ELSE "text"

\* the branch the if / elif / else chain on output_format takes (lines 101-108)
Dispatch(fmt) ==
    IF fmt \in {"markdown", "json", "text"} THEN fmt ELSE "unsupported"

\* mutant of UsesChunks: a positive bound is enough
UsesChunksUnasked(chunked_arg, mc) == mc > 0

\* _export_markdown / _export_text: if chunked and max_chars and max_chars > 0
UsesChunks(chunked_arg, mc) == chunked_arg /\ mc # 0 /\ mc > 0

\* export_for_llm up to the write: the empty check, the bound, the dispatch on
\* the format, and _export_markdown / _export_text up to their write.  The
\* config file _initialize_config_file writes holds no
\* export.max_entries_per_export, so lines 80-86 leave entries as they are.
ExportForLlm ==
    /\ pc = "export_for_llm"
    /\ IF NoEntries(entries)
       THEN /\ result' = Some(Raised("No hay entradas para exportar"))
            /\ pc' = "done"
            /\ UNCHANGED <<content, ext, max_chars>>
       ELSE IF Dispatch(output_format) \in {"markdown", "text"}
       THEN /\ content' = IF Dispatch(output_format) = "markdown"
                          THEN BuildMarkdownContent(entries, include_git, group_by)
                          ELSE BuildTextContent(entries, include_git, group_by)
            /\ ext' = IF Dispatch(output_format) = "markdown" THEN "md" ELSE "txt"
            /\ max_chars' = EffectiveMaxChars(arg_max_chars, arg_max_tokens)
            /\ pc' = IF UsesChunks(chunked, max_chars') THEN "write_chunked"
                     ELSE "write_single"
            /\ UNCHANGED result
       ELSE IF Dispatch(output_format) = "json"
       THEN /\ ext' = "json"
            /\ pc' = "write_json"
            /\ UNCHANGED <<content, max_chars, result>>
       ELSE /\ result' = Some(Raised("Formato no soportado: " \o output_format))
            /\ pc' = "done"
            /\ UNCHANGED <<content, ext, max_chars>>
    /\ UNCHANGED <<args, filename_base, start, parts, widx, files>>
    /\ UNCHANGED <<entry_vars, store_vars>>

\* _export_json: the write of export_data and the return of the path
WriteJson ==
    /\ pc = "write_json"
    /\ files' = Append(files, [name |-> SingleName(filename_base, "json"),
                               json |-> ExportData(entries, include_git)])
    /\ result' = Some(OkPath(SingleName(filename_base, "json")))
    /\ pc' = "done"
    /\ UNCHANGED <<args, filename_base, content, ext, max_chars, start, parts, widx>>
    /\ UNCHANGED <<entry_vars, store_vars>>

(***************************************************************************)
(* Calls of export_for_llm.  The entries list_entries returns are drawn    *)
(* from sample entries: tagged and untagged, with and without git_info,    *)
(* files and llm_context, with parsable, unparsable and empty timestamps,  *)
(* and one whose content holds a separator rule of its own.                *)
(***************************************************************************)
SampleEntries ==
    <<[entry_type |-> "note", title |-> "Primera", content |-> "Contenido 1",
       tags |-> <<"a", "common">>, files_affected |-> <<>>, llm_context |-> None,
       git_info |-> None, related_entries |-> <<>>,
       timestamp |-> "2024-01-02T10:00:00", entry_id |-> "id1"],
      [entry_type |-> "bug", title |-> "Segunda", content |-> "Contenido 2",
       tags |-> <<"b", "common">>, files_affected |-> <<"src/a.py">>,
       llm_context |-> Some("ctx"),
       git_info |-> Some([current_commit |-> "abc1234", branch |-> "main",
                          is_clean |-> TRUE]),
       related_entries |-> <<"id1">>,
       timestamp |-> "2024-01-03T09:30:00.123456", entry_id |-> "id2"],
      [entry_type |-> "decision", title |-> "Tercera", content |-> "uno\n---\ndos",
       tags |-> <<>>, files_affected |-> <<>>, llm_context |-> None,
       git_info |-> Some([current_commit |-> "def5678"]),
       related_entries |-> <<>>,
       timestamp |-> "ayer por la tarde", entry_id |-> "id3"],
      [entry_type |-> "note", title |-> "Cuarta", content |-> "x",
       tags |-> <<"a">>, files_affected |-> <<>>, llm_context |-> None,
       git_info |-> Some([current_commit |-> "0a1b2c3", branch |-> "dev",
                          is_clean |-> FALSE]),
       related_entries |-> <<>>,
       timestamp |-> "", entry_id |-> "id4"]>>

\* the lists of at most n distinct sample entries
EntryLists(n) ==
    LET picks == UNION {[1..k -> 1..Len(SampleEntries)] : k \in 0..n}
        distinct == {p \in picks : \A i, j \in 1..Len(p) : i # j => p[i] # p[j]}
    IN  {[i \in 1..Len(p) |-> SampleEntries[p[i]]] : p \in distinct}

\* the state of a call before its first step
CallStart ==
    /\ filename_base = "memory_export_" \o NowStamp
    /\ content = ""
    /\ ext = ""
    /\ max_chars = 0
    /\ start = 0
    /\ parts = <<>>
    /\ widx = 0
    /\ files = <<>>
    /\ result = None
    /\ pc = "export_for_llm"
    /\ NoEntryObject

\* unchunked exports in every format (one unsupported) and grouping
InitRender ==
    /\ entries \in EntryLists(MaxEntries)
    /\ output_format \in {"markdown", "json", "text", "xml"}
    /\ include_git \in BOOLEAN
    /\ group_by \in {"type", "date", "tags", "none"}
    /\ chunked = FALSE
    /\ arg_max_chars = None
    /\ arg_max_tokens = None
    /\ CallStart
    /\ NoStoreCall

NextRender == ExportForLlm \/ WriteSingle \/ WriteJson \/ WriteFails

SpecRender == InitRender /\ [][NextRender]_vars

\* chunked exports of rendered markdown and text documents
InitExport ==
    /\ entries \in EntryLists(MaxEntries)
    /\ output_format \in {"markdown", "text"}
    /\ include_git \in BOOLEAN
    /\ group_by \in {"type", "date", "tags", "none"}
    /\ chunked = TRUE
    /\ arg_max_chars \in {None} \cup {Some(k * CharStep) : k \in 1..MaxSteps}
    /\ arg_max_tokens \in {None, Some(TokenBudget)}
    /\ CallStart
    /\ NoStoreCall

NextExport ==
    ExportForLlm \/ WriteChunked \/ SplitStep \/ WritePart \/ WriteSingle \/ WriteFails

SpecExport == InitExport /\ [][NextExport]_vars

\* the values a caller passes for max_chars and for max_tokens
MaxCharsArgs == {None, Some(-1), Some(0)} \cup {Some(k * CharStep) : k \in 1..MaxSteps}

MaxTokensArgs == {None, Some(-1), Some(0), Some(TokenBudget), Some(2 * TokenBudget)}

\* calls with every combination of format, chunked, max_chars and max_tokens,
\* on no entry or one entry, and for JSON on longer lists too
InitCall ==
    /\ entries \in EntryLists(MaxEntries)
    /\ output_format \in {"markdown", "json", "text", "xml"}
    /\ output_format # "json" => Len(entries) <= 1
    /\ include_git \in BOOLEAN
    /\ group_by \in {"type", "none"}
    /\ chunked \in BOOLEAN
    /\ arg_max_chars \in MaxCharsArgs
    /\ arg_max_tokens \in MaxTokensArgs
    /\ CallStart
    /\ NoStoreCall

NextCall ==
    \/ ExportForLlm \/ WriteChunked \/ SplitStep \/ WritePart
    \/ WriteSingle \/ WriteJson \/ WriteFails

SpecCall == InitCall /\ [][NextCall]_vars

(***************************************************************************)
(* Entry (core/entry.py): construction, from_dict, and the list methods.   *)
(* An Entry is the record of its ten fields; after __post_init__ its       *)
(* timestamp and entry_id are strings.  datetime.now() is NowIso, and      *)
(* uuid.uuid4() is any of a few identifiers.                               *)
(***************************************************************************)
Uuids == {"uuid-1", "uuid-2"}

TagPool == {"a", "b"}

FilePool == {"f.py", "g.py"}

\* the lists over pool of at most n elements, repetitions included
ListsUpTo(pool, n) == UNION {[1..k -> pool] : k \in 0..n}

\* x in seq
Contains(seq, x) == \E k \in 1..Len(seq) : seq[k] = x

\* seq.remove(x) when x is in seq: the first occurrence is removed
ListRemove(seq, x) ==
    LET first == CHOOSE k \in 1..Len(seq) :
                     seq[k] = x /\ \A j \in 1..(k - 1) : seq[j] # x
    IN  [k \in 1..(Len(seq) - 1) |-> IF k < first THEN seq[k] ELSE seq[k + 1]]

\* if x not in seq: seq.append(x)
AppendIfAbsent(seq, x) == IF Contains(seq, x) THEN seq ELSE Append(seq, x)

\* Entry.__post_init__ on the fields the constructor was given, where
\* timestamp and entry_id are None or a string
PostInit(raw, now, uuid) ==
    [raw EXCEPT !.timestamp = IF @ = None THEN now ELSE @[1],
                !.entry_id = IF @ = None THEN uuid ELSE @[1]]

\* data.get(key) for a key whose value is a string: None when absent
GetOptional(data, key) == IF key \in DOMAIN data THEN Some(data[key]) ELSE None

\* mutant of FromDict: the id is read from the key "entry_id"
FromDictWrongIdKey(data, now, uuid) ==
    PostInit([entry_type |-> Get(data, "type", ""),
              title |-> Get(data, "title", ""),
              content |-> Get(data, "content", ""),
              tags |-> Get(data, "tags", <<>>),
              files_affected |-> Get(data, "files_affected", <<>>),
              llm_context |-> Get(data, "llm_context", None),
              git_info |-> Get(data, "git_info", None),
              related_entries |-> Get(data, "related_entries", <<>>),
              timestamp |-> GetOptional(data, "timestamp"),
              entry_id |-> GetOptional(data, "entry_id")], now, uuid)

\* Entry.from_dict
FromDict(data, now, uuid) ==
    PostInit([entry_type |-> Get(data, "type", ""),
              title |-> Get(data, "title", ""),
              content |-> Get(data, "content", ""),
              tags |-> Get(data, "tags", <<>>),
              files_affected |-> Get(data, "files_affected", <<>>),
              llm_context |-> Get(data, "llm_context", None),
              git_info |-> Get(data, "git_info", None),
              related_entries |-> Get(data, "related_entries", <<>>),
              timestamp |-> GetOptional(data, "timestamp"),
              entry_id |-> GetOptional(data, "id")], now, uuid)

\* the dictionaries handed to from_dict: what to_dict made of the sample
\* entries, and dictionaries with keys missing, unknown or empty
SampleDicts ==
    <<ToDict(SampleEntries[1]), ToDict(SampleEntries[2]),
      ToDict(SampleEntries[3]), ToDict(SampleEntries[4]),
      [unknown |-> "x"],
      [type |-> "note", title |-> "t", content |-> "c"],
      [type |-> "note", title |-> "t", content |-> "c", id |-> "", timestamp |-> ""],
      [type |-> "bug", title |-> "t", content |-> "c", id |-> "id9",
       tags |-> <<"a", "a">>, files_affected |-> <<"f.py", "f.py">>]>>

\* the timestamp and entry_id arguments of the constructor
TimestampArgs == {None, Some(""), Some("2024-01-02T10:00:00")}

IdArgs == {None, Some(""), Some("id1")}

\* the llm_context and git_info arguments, both absent or both given
OptionalArgs ==
    {<<None, None>>, <<Some("ctx"), Some([current_commit |-> "abc1234"])>>}

\* Entry(...)
NewEntry ==
    /\ self = None
    /\ \E tags \in ListsUpTo(TagPool, MaxTags) :
       \E fs \in {<<>>, <<"f.py">>, <<"f.py", "f.py">>} :
       \E ts \in TimestampArgs : \E id \in IdArgs :
       \E opt \in OptionalArgs : \E uuid \in Uuids :
           self' = Some(PostInit([entry_type |-> "note", title |-> "t",
                                   content |-> "c", tags |-> tags,
                                   files_affected |-> fs,
                                   llm_context |-> opt[1], git_info |-> opt[2],
                                   related_entries |-> <<>>,
                                   timestamp |-> ts, entry_id |-> id],
                                  NowIso, uuid))
    /\ last_call' = [op |-> "Entry", arg |-> "", ret |-> "None"]
    /\ UNCHANGED <<export_vars, store_vars>>

\* Entry.from_dict(data)
FromDictCall ==
    /\ self = None
    /\ \E k \in 1..Len(SampleDicts) : \E uuid \in Uuids :
           self' = Some(FromDict(SampleDicts[k], NowIso, uuid))
    /\ last_call' = [op |-> "from_dict", arg |-> "", ret |-> "None"]
    /\ UNCHANGED <<export_vars, store_vars>>

\* entry.add_tag(tag)
AddTag ==
    /\ self # None
    /\ \E tag \in TagPool :
           /\ self' = Some([self[1] EXCEPT !.tags = AppendIfAbsent(@, tag)])
           /\ last_call' = [op |-> "add_tag", arg |-> tag, ret |-> "None"]
    /\ UNCHANGED <<export_vars, store_vars>>

\* entry.remove_tag(tag)
RemoveTag ==
    /\ self # None
    /\ \E tag \in TagPool :
           IF Contains(self[1].tags, tag)
           THEN /\ self' = Some([self[1] EXCEPT !.tags = ListRemove(@, tag)])
                /\ last_call' = [op |-> "remove_tag", arg |-> tag, ret |-> "True"]
           ELSE /\ self' = self
                /\ last_call' = [op |-> "remove_tag", arg |-> tag, ret |-> "False"]
    /\ UNCHANGED <<export_vars, store_vars>>

\* entry.add_file(file_path)
AddFile ==
    /\ self # None
    /\ \E file_path \in FilePool :
           /\ self' = Some([self[1] EXCEPT
                                !.files_affected = AppendIfAbsent(@, file_path)])
           /\ last_call' = [op |-> "add_file", arg |-> file_path, ret |-> "None"]
    /\ UNCHANGED <<export_vars, store_vars>>

\* entry.remove_file(file_path)
RemoveFile ==
    /\ self # None
    /\ \E file_path \in FilePool :
           IF Contains(self[1].files_affected, file_path)
           THEN /\ self' = Some([self[1] EXCEPT
                                     !.files_affected = ListRemove(@, file_path)])
                /\ last_call' = [op |-> "remove_file", arg |-> file_path,
                                 ret |-> "True"]
           ELSE /\ self' = self
                /\ last_call' = [op |-> "remove_file", arg |-> file_path,
                                 ret |-> "False"]
    /\ UNCHANGED <<export_vars, store_vars>>

\* no export runs while the Entry is exercised
InitEntry ==
    /\ entries = <<>>
    /\ output_format = "markdown"
    /\ include_git = TRUE
    /\ group_by = "type"
    /\ chunked = FALSE
    /\ arg_max_chars = None
    /\ arg_max_tokens = None
    /\ CallStart
    /\ NoStoreCall

NextEntry == NewEntry \/ FromDictCall \/ AddTag \/ RemoveTag \/ AddFile \/ RemoveFile

SpecEntry == InitEntry /\ [][NextEntry]_vars

(***************************************************************************)
(* MemorySystem (core/memory_system.py): the project store.                *)
(* entries.json is the record of its entry list and of the metadata fields *)
(* the calls write; a stored entry is the dictionary Entry.to_dict makes.  *)
(* A call returns Value(v) or raises: Raised(what).                        *)
(***************************************************************************)
Value(v) == [kind |-> "value", value |-> v]

\* valid_types of create_entry
ValidTypes == {"decision", "change", "context", "bug", "feature", "note"}

\* system.max_content_length of config/config.json, as configured here
MaxContentLength == 3

\* a text of n characters
Text(n) == Repeat("x", n)

\* str(uuid.uuid4()) of the call made after n others: a new identifier
Uuid4(n) == "id" \o ToString(n)

\* value or [] for an optional list argument
OrEmpty(opt) == IF opt = None THEN <<>> ELSE opt[1]

\* the indices of the stored entries with this id
IndicesOf(es, entry_id) == {i \in 1..Len(es) : Get(es[i], "id", None) = entry_id}

\* the first index enumerate() meets with this id; 0 when there is none
FirstIndex(es, entry_id) ==
    IF IndicesOf(es, entry_id) = {} THEN 0
    ELSE CHOOSE i \in IndicesOf(es, entry_id) :
             \A j \in IndicesOf(es, entry_id) : i <= j

\* del entries[i]
DelAt(es, i) == [k \in 1..(Len(es) - 1) |-> IF k < i THEN es[k] ELSE es[k + 1]]

\* MemorySystem._load_schema: the project has no config/schema.json (no
\* call writes one) and the package holds none, so there is no schema
Schema == None

\* MemorySystem._validate_entry does not raise: without a schema nothing
\* is validated
Validates(entry) == Schema = None

\* the Entry create_entry builds, with the git_info GitIntegration reports
\* (None when there is none), when n calls were made before
BuiltEntry(a, git_info, n) ==
    PostInit([entry_type |-> a.entry_type, title |-> a.title,
              content |-> a.content, tags |-> OrEmpty(a.tags),
              files_affected |-> OrEmpty(a.files_affected),
              llm_context |-> a.llm_context, git_info |-> git_info,
              related_entries |-> OrEmpty(a.related_entries),
              timestamp |-> None, entry_id |-> None],
             NowLocal(n), Uuid4(n))

\* data["entries"].append(entry.to_dict()) and the two metadata fields
Appended(data, entry, n) ==
    LET es == Append(data.entries, ToDict(entry))
    IN  [entries |-> es, total_entries |-> Len(es), last_updated |-> NowUtc(n)]

\* mutant of CreateEntryOn: an unknown type is stored as it comes
CreateEntryAnyType(data, a, git_info, n) ==
    IF Len(a.content) > MaxContentLength
    THEN [store |-> data, ret |-> Raised("ValueError")]
    ELSE IF Truthy(a.llm_context) /\ Len(a.llm_context[1]) > MaxContentLength
    THEN [store |-> data, ret |-> Raised("ValueError")]
    ELSE IF ~Validates(BuiltEntry(a, git_info, n))
    THEN [store |-> data, ret |-> Raised("ValueError")]
    ELSE [store |-> Appended(data, BuiltEntry(a, git_info, n), n),
          ret |-> Value(BuiltEntry(a, git_info, n).entry_id)]

\* MemorySystem.create_entry on the stored data, with the arguments a
CreateEntryOn(data, a, git_info, n) ==
    IF a.entry_type \notin ValidTypes
    THEN [store |-> data, ret |-> Raised("ValueError")]
    ELSE IF Len(a.content) > MaxContentLength
    THEN [store |-> data, ret |-> Raised("ValueError")]
    ELSE IF Truthy(a.llm_context) /\ Len(a.llm_context[1]) > MaxContentLength
    THEN [store |-> data, ret |-> Raised("ValueError")]
    ELSE IF ~Validates(BuiltEntry(a, git_info, n))
    THEN [store |-> data, ret |-> Raised("ValueError")]
    ELSE [store |-> Appended(data, BuiltEntry(a, git_info, n), n),
          ret |-> Value(BuiltEntry(a, git_info, n).entry_id)]

\* allowed_fields of update_entry
AllowedFields == {"title", "content", "tags", "files_affected", "llm_context"}

\* mutant of SetAttrs: every keyword that names an attribute is set
SetAttrsAnyField(entry, kwargs) ==
    [f \in DOMAIN entry |-> IF f \in DOMAIN kwargs THEN kwargs[f] ELSE entry[f]]

\* the loop of setattr over kwargs
SetAttrs(entry, kwargs) ==
    [f \in DOMAIN entry |->
        IF f \in DOMAIN kwargs /\ f \in AllowedFields THEN kwargs[f] ELSE entry[f]]

\* mutant of UpdateEntryOn: an unknown id gets a new entry
UpdateEntryUpserts(data, entry_id, kwargs, n) ==
    LET i == FirstIndex(data.entries, entry_id) IN
    IF i = 0
    THEN [store |-> [data EXCEPT !.entries = Append(@, [id |-> entry_id]),
                                 !.last_updated = NowUtc(n)],
          ret |-> Value(FALSE)]
    ELSE LET found == FromDict(data.entries[i], NowLocal(n), Uuid4(n))
             entry == [SetAttrs(found, kwargs) EXCEPT !.timestamp = NowUtc(n)]
         IN  IF ~Validates(entry) THEN [store |-> data, ret |-> Raised("ValueError")]
             ELSE
             [store |-> [data EXCEPT !.entries[i] = ToDict(entry),
                                     !.last_updated = NowUtc(n)],
              ret |-> Value(TRUE)]

\* MemorySystem.update_entry(entry_id, **kwargs): get_entry finds the first
\* stored entry with the id and rebuilds it with from_dict; the loop over
\* the reloaded data replaces the first entry with the id
UpdateEntryOn(data, entry_id, kwargs, n) ==
    LET i == FirstIndex(data.entries, entry_id) IN
    IF i = 0 THEN [store |-> data, ret |-> Value(FALSE)]
    ELSE LET found == FromDict(data.entries[i], NowLocal(n), Uuid4(n))
             entry == [SetAttrs(found, kwargs) EXCEPT !.timestamp = NowUtc(n)]
         IN  IF ~Validates(entry) THEN [store |-> data, ret |-> Raised("ValueError")]
             ELSE
             [store |-> [data EXCEPT !.entries[i] = ToDict(entry),
                                     !.last_updated = NowUtc(n)],
              ret |-> Value(TRUE)]

\* mutant of DeleteEntryOn: total_entries is left as it was
DeleteEntryKeepsTotal(data, entry_id, n) ==
    LET i == FirstIndex(data.entries, entry_id) IN
    IF i = 0 THEN [store |-> data, ret |-> Value(FALSE)]
    ELSE [store |-> [entries |-> DelAt(data.entries, i),
                     total_entries |-> data.total_entries,
                     last_updated |-> NowUtc(n)],
          ret |-> Value(TRUE)]

\* MemorySystem.delete_entry(entry_id)
DeleteEntryOn(data, entry_id, n) ==
    LET i == FirstIndex(data.entries, entry_id) IN
    IF i = 0 THEN [store |-> data, ret |-> Value(FALSE)]
    ELSE LET es == DelAt(data.entries, i)
         IN  [store |-> [entries |-> es, total_entries |-> Len(es),
                         last_updated |-> NowUtc(n)],
              ret |-> Value(TRUE)]

\* the arguments create_entry is called with: valid ones, an unknown type,
\* a content and an llm_context one character too long
CreateArgs ==
    <<[entry_type |-> "note", title |-> "t", content |-> Text(MaxContentLength),
       tags |-> None, files_affected |-> None, llm_context |-> None,
       related_entries |-> None],
      [entry_type |-> "bug", title |-> "u", content |-> Text(1),
       tags |-> Some(<<"a">>), files_affected |-> Some(<<"f.py">>),
       llm_context |-> Some("ctx"), related_entries |-> Some(<<"id0">>)],
      [entry_type |-> "task", title |-> "t", content |-> Text(1),
       tags |-> None, files_affected |-> None, llm_context |-> None,
       related_entries |-> None],
      [entry_type |-> "note", title |-> "t",
       content |-> Text(MaxContentLength + 1),
       tags |-> None, files_affected |-> None, llm_context |-> None,
       related_entries |-> None],
      [entry_type |-> "note", title |-> "t", content |-> Text(1),
       tags |-> None, files_affected |-> None,
       llm_context |-> Some(Text(MaxContentLength + 1)),
       related_entries |-> None]>>

\* what GitIntegration.get_git_info() reports: nothing, or the commit
GitInfos == {None, Some([current_commit |-> "abc1234"])}

\* the keyword arguments update_entry is called with
UpdateKwargs ==
    <<[title |-> "v"],
      [content |-> Text(MaxContentLength + 1)],
      [tags |-> <<"b">>, files_affected |-> <<"g.py">>],
      [llm_context |-> Some(Text(MaxContentLength + 1))],
      [entry_type |-> "task", git_info |-> None, related_entries |-> <<"id9">>]>>

\* the ids a caller knows: those create_entry returned or would have, and
\* one that was never issued
IdArgsAt(n) == {Uuid4(k) : k \in 0..(n - 1)} \cup {"nope"}

\* memory_system.create_entry(...)
CreateEntry ==
    /\ clock < MaxCalls
    /\ procs = <<>>
    /\ \E k \in 1..Len(CreateArgs) : \E git_info \in GitInfos :
           LET out == CreateEntryOn(store, CreateArgs[k], git_info, clock)
           IN  /\ store' = out.store
               /\ last_op' = [op |-> "create_entry", args |-> CreateArgs[k],
                              ret |-> out.ret]
    /\ clock' = clock + 1
    /\ UNCHANGED <<procs, export_vars, entry_vars>>

\* memory_system.update_entry(entry_id, **kwargs)
UpdateEntry ==
    /\ clock < MaxCalls
    /\ procs = <<>>
    /\ \E entry_id \in IdArgsAt(clock) : \E k \in 1..Len(UpdateKwargs) :
           LET out == UpdateEntryOn(store, entry_id, UpdateKwargs[k], clock)
           IN  /\ store' = out.store
               /\ last_op' = [op |-> "update_entry",
                              args |-> [entry_id |-> entry_id,
                                        kwargs |-> UpdateKwargs[k]],
                              ret |-> out.ret]
    /\ clock' = clock + 1
    /\ UNCHANGED <<procs, export_vars, entry_vars>>

\* memory_system.delete_entry(entry_id)
DeleteEntry ==
    /\ clock < MaxCalls
    /\ procs = <<>>
    /\ \E entry_id \in IdArgsAt(clock) :
           LET out == DeleteEntryOn(store, entry_id, clock)
           IN  /\ store' = out.store
               /\ last_op' = [op |-> "delete_entry",
                              args |-> [entry_id |-> entry_id], ret |-> out.ret]
    /\ clock' = clock + 1
    /\ UNCHANGED <<procs, export_vars, entry_vars>>

\* no export runs and no Entry object is built while the store is exercised
Idle ==
    /\ entries = <<>>
    /\ output_format = "markdown"
    /\ include_git = TRUE
    /\ group_by = "type"
    /\ chunked = FALSE
    /\ arg_max_chars = None
    /\ arg_max_tokens = None
    /\ CallStart

\* calls on a freshly initialized store
InitStore == Idle /\ NoStoreCall

NextStore == CreateEntry \/ UpdateEntry \/ DeleteEntry

SpecStore == InitStore /\ [][NextStore]_vars

(***************************************************************************)
(* MemorySystem.list_entries and tools.list.list_entries.                  *)
(***************************************************************************)
\* str.lower() of one character
LowerChar(c) ==
    LET at == {i \in 1..Len(UpperLetters) : CharAt(UpperLetters, i) = c}
    IN  IF at = {} THEN c ELSE CharAt(LowerLetters, CHOOSE i \in at : TRUE)

\* s.lower()
RECURSIVE Lower(_)
Lower(s) ==
    IF Len(s) = 0 THEN ""
    ELSE LowerChar(CharAt(s, 1)) \o Lower(SubSeq(s, 2, Len(s)))

\* pat in s, for strings
InStr(pat, s) ==
    \E p \in 0..(Len(s) - Len(pat)) : SubSeq(s, p + 1, p + Len(pat)) = pat

\* Entry.matches_search
MatchesSearch(entry, search_term) ==
    LET search_lower == Lower(search_term)
    IN  \/ InStr(search_lower, Lower(entry.title))
        \/ InStr(search_lower, Lower(entry.content))
        \/ \E k \in 1..Len(entry.tags) : InStr(search_lower, Lower(entry.tags[k]))

\* seq[a:]
SliceFrom(seq, a) ==
    LET from == IF a < 0 THEN Max2(Len(seq) + a, 0) ELSE Min2(a, Len(seq))
    IN  SubSeq(seq, from + 1, Len(seq))

\* if limit: filtered_entries = filtered_entries[-limit:]
ApplyLimit(filtered_entries, limit) ==
    IF limit # None /\ limit[1] # 0
    THEN SliceFrom(filtered_entries, -limit[1])
    ELSE filtered_entries

\* MemorySystem.list_entries(limit, entry_type, tags, search) on the stored
\* data; date_from and date_to are None in the calls modelled
ListEntriesOn(data, limit, entry_type, tags, search, n) ==
    LET all == [i \in 1..Len(data.entries) |->
                   FromDict(data.entries[i], NowLocal(n), Uuid4(n))]
        OfType(entry) == entry.entry_type = entry_type[1]
        by_type == IF Truthy(entry_type) THEN SelectSeq(all, OfType) ELSE all
        Tagged(entry) == \E k \in 1..Len(tags[1]) : Contains(entry.tags, tags[1][k])
        by_tags == IF Truthy(tags) THEN SelectSeq(by_type, Tagged) ELSE by_type
        Matches(entry) == MatchesSearch(entry, search[1])
        by_search == IF Truthy(search) THEN SelectSeq(by_tags, Matches) ELSE by_tags
    IN  Value(ApplyLimit(by_search, limit))

\* the parameters of MemorySystem.list_entries
ListEntriesParams ==
    {"limit", "entry_type", "tags", "search", "date_from", "date_to"}

\* memory_system.list_entries(**kw): a keyword that is no parameter of the
\* method makes the call raise TypeError
CallListEntries(data, kw, n) ==
    IF DOMAIN kw \subseteq ListEntriesParams
    THEN ListEntriesOn(data, Get(kw, "limit", None), Get(kw, "entry_type", None),
                       Get(kw, "tags", None), Get(kw, "search", None), n)
    ELSE Raised("TypeError")

\* tools.list.list_entries(project_root, limit, offset, entry_type, tags,
\* search) with stats false: MemorySystem(project_root) finds the store
\* there, and every argument is passed on by keyword
ToolsListEntriesOn(data, a, n) ==
    CallListEntries(data, [limit |-> a.limit, offset |-> a.offset,
                           entry_type |-> a.entry_type, tags |-> a.tags,
                           search |-> a.search, date_from |-> None,
                           date_to |-> None], n)

\* the limit argument
LimitArgs == {None} \cup {Some(k) : k \in (0 - 2)..(MaxStored + 1)}

\* the filters
FilterArgs ==
    [entry_type : {None, Some(""), Some("note")},
     tags : {None, Some(<<>>), Some(<<"a">>)},
     search : {None, Some("T")}]

\* memory_system.list_entries(limit=..., entry_type=..., tags=..., search=...),
\* as export_for_llm and the interactive search call it; a listing leaves
\* the store as it is, so one listing per run shows them all
ListEntries ==
    /\ procs = <<>>
    /\ last_op = NoOp
    /\ \E limit \in LimitArgs : \E f \in FilterArgs :
           last_op' = [op |-> "list_entries",
                       args |-> [limit |-> limit, offset |-> 0,
                                 entry_type |-> f.entry_type, tags |-> f.tags,
                                 search |-> f.search],
                       ret |-> CallListEntries(store,
                                   [limit |-> limit, entry_type |-> f.entry_type,
                                    tags |-> f.tags, search |-> f.search], clock)]
    /\ UNCHANGED <<store, clock, procs, export_vars, entry_vars>>

\* tools.list.list_entries(project_root, limit=..., offset=..., ...)
ToolsListEntries ==
    /\ procs = <<>>
    /\ last_op = NoOp
    /\ \E limit \in LimitArgs : \E offset \in 0..MaxStored : \E f \in FilterArgs :
           LET a == [limit |-> limit, offset |-> offset,
                     entry_type |-> f.entry_type, tags |-> f.tags,
                     search |-> f.search]
           IN  last_op' = [op |-> "tools.list_entries", args |-> a,
                           ret |-> ToolsListEntriesOn(store, a, clock)]
    /\ UNCHANGED <<store, clock, procs, export_vars, entry_vars>>

\* the store after create_entry was called with CreateArgs[ks[1]], ...
RECURSIVE StoreOf(_)
StoreOf(ks) ==
    IF ks = <<>> THEN FreshStore
    ELSE CreateEntryOn(StoreOf(SubSeq(ks, 1, Len(ks) - 1)),
                       CreateArgs[ks[Len(ks)]], None, Len(ks) - 1).store

\* a store that holds up to MaxStored entries of the two valid kinds
InitList ==
    /\ Idle
    /\ \E ks \in ListsUpTo({1, 2}, MaxStored) :
           /\ store = StoreOf(ks)
           /\ clock = Len(ks)
    /\ last_op = NoOp
    /\ procs = <<>>

NextList == ListEntries \/ ToolsListEntries

SpecList == InitList /\ [][NextList]_vars

(***************************************************************************)
(* Two create_entry calls on the same project store, from two processes    *)
(* (two runs of the CLI).  Nothing locks entries.json: each call reads     *)
(* the file, appends to what it read and writes the file, and the steps of *)
(* the two calls interleave in any order.  A process is the record of its  *)
(* position, its arguments, its local data and what it returned.           *)
(***************************************************************************)
\* data before _load_entries assigned it
NotLoaded == [entries |-> <<>>, total_entries |-> 0, last_updated |-> ""]

\* the two invocations
Procs == {1, 2}

\* create_entry up to _validate_entry: the checks, and the Entry built
ProcCheck ==
    \E p \in DOMAIN procs :
        /\ procs[p].pc = "start"
        /\ LET out == CreateEntryOn(NotLoaded, procs[p].a, procs[p].git_info, p)
           IN  procs' = [procs EXCEPT
                   ![p].pc = IF out.ret.kind = "error" THEN "done" ELSE "load",
                   ![p].ret = IF out.ret.kind = "error" THEN Some(out.ret) ELSE None]
        /\ UNCHANGED <<store, clock, last_op, export_vars, entry_vars>>

\* data = self._load_entries()
ProcLoad ==
    \E p \in DOMAIN procs :
        /\ procs[p].pc = "load"
        /\ procs' = [procs EXCEPT ![p].pc = "append", ![p].data = store]
        /\ UNCHANGED <<store, clock, last_op, export_vars, entry_vars>>

\* data["entries"].append(...), total_entries, last_updated
ProcAppend ==
    \E p \in DOMAIN procs :
        /\ procs[p].pc = "append"
        /\ procs' = [procs EXCEPT
               ![p].pc = "save",
               ![p].data = Appended(@, BuiltEntry(procs[p].a, procs[p].git_info, p), p)]
        /\ UNCHANGED <<store, clock, last_op, export_vars, entry_vars>>

\* self._save_entries(data); return entry.entry_id
ProcSave ==
    \E p \in DOMAIN procs :
        /\ procs[p].pc = "save"
        /\ store' = procs[p].data
        /\ procs' = [procs EXCEPT
               ![p].pc = "done",
               ![p].ret = Some(Value(BuiltEntry(procs[p].a, procs[p].git_info, p).entry_id))]
        /\ UNCHANGED <<clock, last_op, export_vars, entry_vars>>

\* two invocations about to start on a freshly initialized store
InitConcurrent ==
    /\ Idle
    /\ store = FreshStore
    /\ clock = 0
    /\ last_op = NoOp
    /\ \E k \in [Procs -> 1..Len(CreateArgs)] : \E g \in [Procs -> GitInfos] :
           procs = [p \in Procs |->
                       [pc |-> "start", a |-> CreateArgs[k[p]], git_info |-> g[p],
                        data |-> NotLoaded, ret |-> None]]

NextConcurrent == ProcCheck \/ ProcLoad \/ ProcAppend \/ ProcSave

SpecConcurrent == InitConcurrent /\ [][NextConcurrent]_vars

(***************************************************************************)
(* Readings of the state used by the properties.                           *)
(***************************************************************************)
\* the call returned a path (no write failed)
Returned == pc = "done" /\ result # None /\ result[1].kind = "path"

\* _write_chunked was asked to split: len(content) > max_chars >= 1
MustSplit == max_chars >= 1 /\ Len(content) > max_chars

\* the name the specification gives to segment k
SegmentName(k) == filename_base \o "_part" \o ToString(k) \o "." \o ext

FilesNamed(n) == {i \in 1..Len(files) : files[i].name = n}

TextOfFile(n) == files[CHOOSE i \in FilesNamed(n) : TRUE].text

\* part1 \o part2 \o ... \o partk, read back from the export directory
RECURSIVE JoinSegments(_)
JoinSegments(k) ==
    IF k = 0 THEN "" ELSE JoinSegments(k - 1) \o TextOfFile(SegmentName(k))

\* marker m occurs in doc at 0-based offset p
OccursAt(doc, p, m) ==
    /\ p >= 0
    /\ p + Len(m) <= Len(doc)
    /\ SubSeq(doc, p + 1, p + Len(m)) = m

\* the offsets at which some boundary marker starts
MarkerOffsets(doc) ==
    {p \in 0..Len(doc) : \E m \in Markers : OccursAt(doc, p, m)}

\* offsets (0-based, exclusive end) of segment k among the cut parts
RECURSIVE PartEnd(_)
PartEnd(k) == IF k = 0 THEN 0 ELSE PartEnd(k - 1) + Len(parts[k])

(***************************************************************************)
(* C1: for every document and every max_chars >= 1, the segments written   *)
(* by _write_chunked, concatenated in part order, are exactly the          *)
(* document; while the split runs, the parts cut so far are the document   *)
(* up to the start offset (contiguous, nothing lost, repeated, reordered). *)
(***************************************************************************)
C1_RoundTrip ==
    /\ (pc \in {"split", "write"} \/ (pc = "done" /\ MustSplit))
            => JoinStrings(parts) = Slice(content, 0, start)
    /\ (Returned /\ MustSplit) =>
            /\ \A k \in 1..Len(files) : Cardinality(FilesNamed(SegmentName(k))) = 1
            /\ JoinSegments(Len(files)) = content
    /\ (Returned /\ max_chars >= 1 /\ ~MustSplit) =>
            JoinStrings([i \in 1..Len(files) |-> files[i].text]) = content

\* three or more segments were written, one of them cut short at a marker
C1_Witness ==
    /\ Returned /\ MustSplit
    /\ Len(files) >= 3
    /\ \E k \in 1..(Len(files) - 1) : Len(files[k].text) < max_chars

(***************************************************************************)
(* C2: for every document and every max_chars >= 1, no segment cut or      *)
(* written is longer than max_chars characters.                            *)
(***************************************************************************)
C2_SegmentBound ==
    max_chars >= 1 =>
        /\ \A k \in 1..Len(parts) : Len(parts[k]) <= max_chars
        /\ \A i \in 1..Len(files) : Len(files[i].text) <= max_chars

\* a split whose segments include one of exactly max_chars characters
C2_Witness ==
    /\ Returned /\ MustSplit
    /\ Len(files) >= 2
    /\ \E i \in 1..Len(files) : Len(files[i].text) = max_chars
    /\ MarkerOffsets(content) # {}

(***************************************************************************)
(* Blocks of a document: the stretches between consecutive boundary        *)
(* markers (or the document's ends) that hold no marker start inside.      *)
(***************************************************************************)
Blocks(doc) ==
    LET offs == MarkerOffsets(doc)
    IN  {ab \in (offs \cup {0}) \X (offs \cup {Len(doc)}) :
            /\ ab[1] < ab[2]
            /\ \A p \in offs : ~(ab[1] < p /\ p < ab[2])}

\* the blocks longer than max_chars
LongBlocks == {ab \in Blocks(content) : ab[2] - ab[1] > max_chars}

\* the cuts made so far that fall strictly inside the stretch ab
CutsInside(ab) ==
    {k \in 1..Len(parts) : ab[1] < PartEnd(k) /\ PartEnd(k) < ab[2]}

\* the split has just ended: every part is cut, none is written yet
SplitOver == pc = "write" /\ widx = 1 /\ MustSplit

(***************************************************************************)
(* C4 as stated: a block longer than max_chars that holds no boundary      *)
(* marker is not subdivided; it is emitted whole, inside one segment that  *)
(* is longer than max_chars.                                               *)
(***************************************************************************)
C4_Original ==
    SplitOver =>
        \A ab \in LongBlocks :
            \E k \in 1..Len(parts) :
                /\ PartEnd(k - 1) <= ab[1]
                /\ ab[2] <= PartEnd(k)
                /\ Len(parts[k]) > max_chars

(***************************************************************************)
(* C4 as amended: a block longer than max_chars that holds no boundary     *)
(* marker is subdivided by hard cuts: at least one cut falls strictly      *)
(* inside it, every such cut is exactly max_chars after the previous cut,  *)
(* and no segment overlapping the block is longer than max_chars.          *)
(***************************************************************************)
C4_HardCuts ==
    SplitOver =>
        \A ab \in LongBlocks :
            /\ CutsInside(ab) # {}
            /\ \A k \in CutsInside(ab) : PartEnd(k) = PartEnd(k - 1) + max_chars
            /\ \A k \in 1..Len(parts) :
                   (PartEnd(k - 1) < ab[2] /\ ab[1] < PartEnd(k))
                       => Len(parts[k]) <= max_chars

\* a marker-free block longer than max_chars, after a marker, has been cut
C4_Witness ==
    /\ SplitOver
    /\ \E ab \in LongBlocks : ab[1] > 0 /\ CutsInside(ab) # {}

(***************************************************************************)
(* C5: if max_chars <= 0 or len(document) <= max_chars (the empty document *)
(* included), _write_chunked writes exactly one file, named                *)
(* base_name.extension with no _part suffix, holding the whole document,   *)
(* and returns that file's path; it cuts no part.                          *)
(***************************************************************************)
C5_SingleFile ==
    (max_chars <= 0 \/ Len(content) <= max_chars) =>
        /\ parts = <<>>
        /\ Len(files) <= 1
        /\ Returned =>
               /\ Len(files) = 1
               /\ files[1].name = filename_base \o "." \o ext
               /\ files[1].text = content
               /\ result[1].value = files[1].name

\* a document of exactly max_chars characters was written as one file
C5_Witness ==
    /\ Returned
    /\ Len(content) >= 1
    /\ Len(content) = max_chars
    /\ Len(files) = 1

(***************************************************************************)
(* C6: in each iteration of the split, with the window                     *)
(* [start, min(start + max_chars, len)), the cut is the rightmost offset   *)
(* strictly after the window start at which one of the three markers       *)
(* occurs wholly inside the window, provided there is one and the window   *)
(* does not reach the end of the document; otherwise it is the window end. *)
(***************************************************************************)
ExpectedCut(doc, st, mc) ==
    LET wend == IF st + mc <= Len(doc) THEN st + mc ELSE Len(doc)
        inside == {p \in (st + 1)..(wend - 1) :
                      \E m \in Markers : p + Len(m) <= wend /\ OccursAt(doc, p, m)}
    IN  IF inside # {} /\ wend # Len(doc) THEN SetMax(inside) ELSE wend

C6_CutPlacement ==
    [][pc = "split" => start' = ExpectedCut(content, start, max_chars)]_vars

\* a cut placed at a marker although a later marker starts inside the window
\* without fitting in it, and a hard cut of a window that starts with a marker
C6_Witness ==
    /\ SplitOver
    /\ \E k \in 1..(Len(parts) - 1) :
           /\ PartEnd(k) \in MarkerOffsets(content)
           /\ PartEnd(k) < PartEnd(k - 1) + max_chars
           /\ \E p \in MarkerOffsets(content) :
                  PartEnd(k) < p /\ p < PartEnd(k - 1) + max_chars
    /\ \E j \in 1..(Len(parts) - 1) :
           /\ PartEnd(j - 1) \in MarkerOffsets(content)
           /\ PartEnd(j) = PartEnd(j - 1) + max_chars

(***************************************************************************)
(* C7: when len(document) > max_chars >= 1, _write_chunked writes at least *)
(* two segments, named base_name_part1.ext, base_name_part2.ext, ... with  *)
(* consecutive numbers from 1 and no gap, and returns the path of part 1.  *)
(***************************************************************************)
C7_PartNames ==
    MustSplit =>
        /\ \A k \in 1..Len(files) : files[k].name = SegmentName(k)
        /\ Returned =>
               /\ Len(files) >= 2
               /\ Len(files) = Len(parts)
               /\ result[1].value = SegmentName(1)

\* a split into exactly two segments has returned
C7_Witness ==
    /\ Returned /\ MustSplit
    /\ Len(files) = 2

(***************************************************************************)
(* Readings of a written markdown or text document, by its lines.          *)
(***************************************************************************)
StartsWith(s, p) == Len(s) >= Len(p) /\ SubSeq(s, 1, Len(p)) = p

After(s, p) == SubSeq(s, Len(p) + 1, Len(s))

\* s.split("\n")
RECURSIVE SplitLines(_)
SplitLines(s) ==
    LET nl == {i \in 1..Len(s) : CharAt(s, i) = "\n"}
    IN  IF nl = {} THEN <<s>>
        ELSE LET first == CHOOSE i \in nl : \A j \in nl : i <= j
             IN  <<SubSeq(s, 1, first - 1)>> \o SplitLines(SubSeq(s, first + 1, Len(s)))

\* the label that opens the ID line of an entry block
IdLabel == IF output_format = "markdown" THEN "**ID:** " ELSE "ID: "

\* the label that opens the git line of an entry block
GitLabel == IF output_format = "markdown" THEN "**Git:** " ELSE "Git: "

\* the ID lines of the entry with this id
IdLinesOf(lines, id) == {n \in 1..Len(lines) : lines[n] = IdLabel \o id}

\* line n is a group heading: "## key" in markdown; in text a line after a
\* blank line, underlined with dashes, that is not an entry's title line
IsGroupHeading(lines, n) ==
    IF output_format = "markdown" THEN StartsWith(lines[n], "## ")
    ELSE /\ 1 < n /\ n < Len(lines)
         /\ lines[n - 1] = ""
         /\ Len(lines[n]) > 0
         /\ lines[n + 1] = Repeat("-", Len(lines[n]))
         /\ ~StartsWith(lines[n], "ENTRADA: ")

\* the heading of the group line n lies in; "" before the first heading
GroupOf(lines, n) ==
    LET hs == {h \in 1..n : IsGroupHeading(lines, h)}
    IN  IF hs = {} THEN ""
        ELSE IF output_format = "markdown" THEN After(lines[SetMax(hs)], "## ")
        ELSE lines[SetMax(hs)]

\* the groups in which the entry with this id is rendered
GroupsOf(lines, id) == {GroupOf(lines, n) : n \in IdLinesOf(lines, id)}

\* a markdown or text document was written and its path returned
Rendered == Returned /\ output_format \in {"markdown", "text"} /\ Len(files) = 1

(***************************************************************************)
(* C8: under tag grouping an entry is rendered in the group of each of its *)
(* tags; under type grouping, date grouping and no grouping every entry is *)
(* rendered exactly once (under a group heading when grouped, under none   *)
(* when not).                                                              *)
(***************************************************************************)
C8_Grouping ==
    Rendered =>
        LET lines == SplitLines(files[1].text)
        IN  \A i \in 1..Len(entries) :
                LET id == entries[i].entry_id
                IN  IF group_by = "tags"
                    THEN \A t \in 1..Len(entries[i].tags) :
                             ("#" \o entries[i].tags[t]) \in GroupsOf(lines, id)
                    ELSE /\ Cardinality(IdLinesOf(lines, id)) = 1
                         /\ group_by \in GroupModes => "" \notin GroupsOf(lines, id)
                         /\ group_by \notin GroupModes => GroupsOf(lines, id) = {""}

\* two entries share a tag and each has one of its own: three tag groups,
\* the shared one holding both entries
C8_Witness ==
    /\ Rendered /\ group_by = "tags" /\ Len(entries) = 2
    /\ LET lines == SplitLines(files[1].text)
       IN  /\ \A i \in 1..2 : Cardinality(GroupsOf(lines, entries[i].entry_id)) = 2
           /\ Cardinality(GroupsOf(lines, entries[1].entry_id)
                          \cup GroupsOf(lines, entries[2].entry_id)) = 3

(***************************************************************************)
(* C9 as stated: for every non-empty entry sequence and every grouping     *)
(* mode, the ids rendered in the markdown document, in the text document   *)
(* and in the JSON export are the same set: the ids of the input entries.  *)
(***************************************************************************)
InputIds == {entries[i].entry_id : i \in 1..Len(entries)}

\* the ids read back from the written file
ExportedIds ==
    IF output_format = "json"
    THEN {files[1].json.entries[i].id : i \in 1..Len(files[1].json.entries)}
    ELSE LET lines == SplitLines(files[1].text)
         IN  {After(lines[n], IdLabel) :
                  n \in {m \in 1..Len(lines) : StartsWith(lines[m], IdLabel)}}

C9_SameIds ==
    (Returned /\ Len(files) = 1) => ExportedIds = InputIds

(***************************************************************************)
(* C10: with include_git false the export does not depend on the entries'  *)
(* git_info: no line of a markdown or text document is a Git line, no JSON *)
(* record has a git_info key, and replacing the entries' git_info by any   *)
(* other values yields the same document and the same records.             *)
(***************************************************************************)
GitValues ==
    {None,
     Some([current_commit |-> "fff0000"]),
     Some([current_commit |-> "abc1234", branch |-> "main", is_clean |-> FALSE])}

WithGitInfo(es, gs) == [i \in 1..Len(es) |-> [es[i] EXCEPT !.git_info = gs[i]]]

C10_NoGit ==
    (Returned /\ Len(files) = 1 /\ ~include_git) =>
        IF output_format = "json"
        THEN /\ \A i \in 1..Len(files[1].json.entries) :
                    "git_info" \notin DOMAIN files[1].json.entries[i]
             /\ \A gs \in [1..Len(entries) -> GitValues] :
                    files[1].json = ExportData(WithGitInfo(entries, gs), FALSE)
        ELSE /\ LET lines == SplitLines(files[1].text)
                IN  \A n \in 1..Len(lines) : ~StartsWith(lines[n], GitLabel)
             /\ \A gs \in [1..Len(entries) -> GitValues] :
                    files[1].text =
                        IF output_format = "markdown"
                        THEN BuildMarkdownContent(WithGitInfo(entries, gs), FALSE, group_by)
                        ELSE BuildTextContent(WithGitInfo(entries, gs), FALSE, group_by)

\* a markdown document written without git although an entry carries
\* git_info that the same export with include_git would have shown
C10_Witness ==
    /\ Rendered /\ ~include_git /\ output_format = "markdown"
    /\ \E i \in 1..Len(entries) : GitTruthy(entries[i].git_info)
    /\ files[1].text # BuildMarkdownContent(entries, TRUE, group_by)

(***************************************************************************)
(* Entry blocks of a rendered document and the windows of its split.       *)
(***************************************************************************)
\* the strings the builder joined into the document
RenderedParts ==
    IF output_format = "markdown" THEN MarkdownParts(entries, include_git, group_by)
    ELSE TextParts(entries, include_git, group_by)

\* the offsets <<a, b>> of each entry block of the document: from the start
\* of its heading line to the end of its trailing rule line
EntryBlocks ==
    LET pl == RenderedParts
        opens == IF output_format = "markdown" THEN "### " ELSE "ENTRADA: "
    IN  {<<Len(JoinStrings(SubSeq(pl, 1, k - 1))), Len(JoinStrings(SubSeq(pl, 1, k))) - 1>> :
            k \in {j \in 1..Len(pl) : StartsWith(pl[j], opens)}}

\* the offset of the newline before a markdown block's own trailing rule
OwnRule(ab) == ab[2] - 5

\* the split of a rendered document has just cut a part and goes on: the part
\* is parts[Len(parts)], the cut is at start
CutMade == entries # <<>> /\ pc = "split" /\ parts # <<>>

\* the window that produced the last part
WindowStart == start - Len(parts[Len(parts)])

WindowStop == Min2(WindowStart + max_chars, Len(content))

\* some marker occurs wholly inside the window, at or after from
MarkerInWindow(from) ==
    \E p \in from..WindowStop : \E m \in Markers :
        p + Len(m) <= WindowStop /\ OccursAt(content, p, m)

\* some marker starts at offset p of the document
MarkerAt(p) == \E m \in Markers : OccursAt(content, p, m)

\* the cut fell strictly inside the block ab
CutInside(ab) == ab[1] < start /\ start < ab[2]

(***************************************************************************)
(* C3 as stated: in the split of a rendered markdown or text document, no  *)
(* cut falls inside an entry's block (heading line through trailing rule)  *)
(* when the block is shorter than max_chars and a boundary marker occurs   *)
(* in the window being cut.                                                *)
(***************************************************************************)
C3_Original ==
    CutMade =>
        \A ab \in EntryBlocks :
            (ab[2] - ab[1] < max_chars /\ MarkerInWindow(WindowStart))
                => ~CutInside(ab)

(***************************************************************************)
(* C3 as amended: when a boundary marker occurs wholly inside the window   *)
(* strictly after its start and the window stops short of the document's   *)
(* end, the cut falls on a boundary marker.  For an entry whose block      *)
(* holds no marker text besides the newline-rule-newline of its own        *)
(* trailing rule, a cut inside the block is then impossible in a text      *)
(* document, and in a markdown document it can only be the cut right       *)
(* before the block's own trailing rule, which is itself a marker.         *)
(***************************************************************************)
MarkerFree(ab) ==
    \A p \in (ab[1] + 1)..(ab[2] - 1) :
        MarkerAt(p) => (ext = "md" /\ p = OwnRule(ab))

C3_CutsAtMarkers ==
    (CutMade /\ WindowStop < Len(content) /\ MarkerInWindow(WindowStart + 1)) =>
        /\ MarkerAt(start)
        /\ \A ab \in EntryBlocks :
               (CutInside(ab) /\ MarkerFree(ab)) =>
                   (ext = "md" /\ start = OwnRule(ab))

\* a markdown block shorter than max_chars, free of markers of its own, was
\* cut right before its trailing rule
C3_Witness ==
    /\ CutMade /\ ext = "md"
    /\ WindowStop < Len(content)
    /\ MarkerInWindow(WindowStart + 1)
    /\ \E ab \in EntryBlocks :
           /\ ab[2] - ab[1] < max_chars
           /\ start = OwnRule(ab)
           /\ MarkerFree(ab)

(***************************************************************************)
(* C11 as stated: under date grouping an entry whose timestamp cannot be   *)
(* parsed as an ISO-8601 date-time is rendered in the group "unknown", and *)
(* every other entry in the group of the YYYY-MM-DD date of its timestamp. *)
(***************************************************************************)
RenderedByDate == Rendered /\ group_by = "date"

C11_Original ==
    RenderedByDate =>
        LET lines == SplitLines(files[1].text)
        IN  \A i \in 1..Len(entries) :
                GroupsOf(lines, entries[i].entry_id) =
                    {IF FromIsoFormatOk(entries[i].timestamp)
                     THEN SubSeq(entries[i].timestamp, 1, 10) ELSE "unknown"}

(***************************************************************************)
(* C11 as amended: under date grouping an entry whose timestamp parses is  *)
(* rendered in the group of its YYYY-MM-DD date; one whose timestamp does  *)
(* not parse is rendered in the group keyed by the first ten characters of *)
(* the timestamp, and in the group "unknown" only if the timestamp is      *)
(* empty.                                                                  *)
(***************************************************************************)
C11_DateKeys ==
    RenderedByDate =>
        LET lines == SplitLines(files[1].text)
        IN  \A i \in 1..Len(entries) :
                LET ts == entries[i].timestamp
                IN  GroupsOf(lines, entries[i].entry_id) =
                        {IF FromIsoFormatOk(ts) THEN SubSeq(ts, 1, 10)
                         ELSE IF ts = "" THEN "unknown"
                         ELSE SubSeq(ts, 1, IF Len(ts) < 10 THEN Len(ts) ELSE 10)}

\* an entry with an unparsable timestamp longer than ten characters and one
\* with an empty timestamp were rendered by date, in two groups
C11_Witness ==
    /\ RenderedByDate /\ Len(entries) = 2
    /\ \E i, j \in 1..2 :
           /\ ~FromIsoFormatOk(entries[i].timestamp) /\ Len(entries[i].timestamp) > 10
           /\ entries[j].timestamp = ""
           /\ LET lines == SplitLines(files[1].text)
              IN  /\ "unknown" \notin GroupsOf(lines, entries[i].entry_id)
                  /\ GroupsOf(lines, entries[j].entry_id) = {"unknown"}

(***************************************************************************)
(* C12: the grouping helpers return the groups in sorted key order         *)
(* (ascending for type and tag grouping, descending for date grouping) and *)
(* inside every group the entries keep their input order; the document     *)
(* shows the groups and their entries in that order.                       *)
(***************************************************************************)
\* the elements of a set of numbers, ascending
RECURSIVE Ascending(_)
Ascending(set) ==
    IF set = {} THEN <<>>
    ELSE LET least == CHOOSE x \in set : \A y \in set : x <= y
         IN  <<least>> \o Ascending(set \ {least})

\* the heading the builders write for a group key
ShownKey(key) ==
    IF group_by = "type" THEN Upper(key)
    ELSE IF group_by = "tags" THEN "#" \o key ELSE key

\* the group headings of the document, in document order
HeadingsOf(lines) ==
    LET at == Ascending({n \in 1..Len(lines) : IsGroupHeading(lines, n)})
    IN  [j \in 1..Len(at) |-> GroupOf(lines, at[j])]

\* the ids rendered between heading line h and the next heading, in order
IdsUnder(lines, h) ==
    LET later == {n \in (h + 1)..Len(lines) : IsGroupHeading(lines, n)}
        stop == IF later = {} THEN Len(lines) + 1
                ELSE CHOOSE n \in later : \A m \in later : n <= m
        at == Ascending({n \in (h + 1)..(stop - 1) : StartsWith(lines[n], IdLabel)})
    IN  [j \in 1..Len(at) |-> After(lines[at[j]], IdLabel)]

C12_GroupOrder ==
    (Rendered /\ group_by \in GroupModes) =>
        LET g == Grouped(entries, group_by)
            lines == SplitLines(files[1].text)
            heads == Ascending({n \in 1..Len(lines) : IsGroupHeading(lines, n)})
        IN  /\ \A j \in 1..(Len(g) - 1) :
                   IF group_by = "date" THEN StrLess(g[j + 1].key, g[j].key)
                   ELSE StrLess(g[j].key, g[j + 1].key)
            /\ \A j \in 1..Len(g) : \A a, b \in 1..Len(g[j].members) :
                   a < b => g[j].members[a] < g[j].members[b]
            /\ HeadingsOf(lines) = [j \in 1..Len(g) |-> ShownKey(g[j].key)]
            /\ \A j \in 1..Len(g) :
                   IdsUnder(lines, heads[j]) =
                       [a \in 1..Len(g[j].members) |-> entries[g[j].members[a]].entry_id]

\* three tag groups, first met in another order than the sorted one, the
\* shared one holding both entries
C12_Witness ==
    /\ Rendered /\ group_by = "tags"
    /\ LET g == Grouped(entries, group_by)
       IN  /\ Len(g) = 3
           /\ \E j \in 1..3 : Len(g[j].members) = 2
           /\ GroupTagsFrom(entries, 1, <<>>) # g

(***************************************************************************)
(* C13: when the entry sequence is empty, export_for_llm raises the        *)
(* nothing-to-export error for every output format and every combination   *)
(* of options, and writes no file.                                         *)
(***************************************************************************)
C13_EmptyInput ==
    entries = <<>> =>
        /\ files = <<>>
        /\ pc \in {"export_for_llm", "done"}
        /\ pc = "done" => result = Some(Raised("No hay entradas para exportar"))

\* a chunked markdown call with a positive bound on no entries has raised
C13_Witness ==
    /\ entries = <<>> /\ pc = "done"
    /\ output_format = "markdown" /\ chunked
    /\ arg_max_chars # None /\ arg_max_chars[1] > 0
    /\ result # None /\ result[1].kind = "error"

(***************************************************************************)
(* C14 as stated: when output_format is not one of markdown, json, text,   *)
(* export_for_llm raises the unsupported-format error and writes no file.  *)
(***************************************************************************)
C14_Original ==
    output_format \notin {"markdown", "json", "text"} =>
        /\ files = <<>>
        /\ pc = "done" =>
               result = Some(Raised("Formato no soportado: " \o output_format))

(***************************************************************************)
(* C14 as amended: when output_format is not one of markdown, json, text   *)
(* and there are entries to export, export_for_llm raises the              *)
(* unsupported-format error and writes no file; with no entries the        *)
(* nothing-to-export error is raised first.                                *)
(***************************************************************************)
C14_UnsupportedFormat ==
    (entries # <<>> /\ output_format \notin {"markdown", "json", "text"}) =>
        /\ files = <<>>
        /\ pc \in {"export_for_llm", "done"}
        /\ pc = "done" =>
               result = Some(Raised("Formato no soportado: " \o output_format))

\* a call with entries and the format xml has raised
C14_Witness ==
    /\ entries # <<>> /\ output_format = "xml" /\ pc = "done"
    /\ result # None /\ result[1].kind = "error"
    /\ files = <<>>

(***************************************************************************)
(* C15: a JSON export is never chunked: for every chunked, max_chars and   *)
(* max_tokens, a JSON export that returns has written exactly one file,    *)
(* stem.json, holding a record of every entry in input order, with         *)
(* metadata.total_entries the number of records; no part is ever cut.      *)
(***************************************************************************)
C15_JsonOneFile ==
    (entries # <<>> /\ output_format = "json") =>
        /\ parts = <<>>
        /\ pc \in {"export_for_llm", "write_json", "done"}
        /\ Len(files) <= 1
        /\ Returned =>
               /\ Len(files) = 1
               /\ files[1].name = filename_base \o ".json"
               /\ result[1].value = files[1].name
               /\ Len(files[1].json.entries) = Len(entries)
               /\ \A i \in 1..Len(entries) :
                      files[1].json.entries[i].id = entries[i].entry_id
               /\ files[1].json.metadata.total_entries = Len(files[1].json.entries)

\* a chunked JSON export of two entries with a positive bound has returned
C15_Witness ==
    /\ Returned /\ output_format = "json" /\ chunked
    /\ Len(entries) = 2
    /\ arg_max_chars # None /\ arg_max_chars[1] > 0
    /\ arg_max_tokens # None /\ arg_max_tokens[1] > 0

(***************************************************************************)
(* C16: the character bound used for chunking counts 4 characters per      *)
(* token; when both max_tokens > 0 and max_chars > 0 are given it is the   *)
(* larger of 4 * max_tokens and max_chars; it is 0 when neither is         *)
(* positive.  A chunked export splits by that bound and by no other.       *)
(***************************************************************************)
Positive(opt) == opt # None /\ opt[1] > 0

ExpectedBound ==
    IF Positive(arg_max_tokens) /\ Positive(arg_max_chars)
    THEN (IF 4 * arg_max_tokens[1] >= arg_max_chars[1]
          THEN 4 * arg_max_tokens[1] ELSE arg_max_chars[1])
    ELSE IF Positive(arg_max_tokens) THEN 4 * arg_max_tokens[1]
    ELSE IF Positive(arg_max_chars) THEN arg_max_chars[1]
    ELSE 0

C17_NonEmpty ==
    self # None => (self[1].entry_id # "" /\ self[1].timestamp # "")

(***************************************************************************)
(* C18 as stated, its invariant: in every reachable state of an Entry its  *)
(* tags and its files_affected hold no element twice.                      *)
(***************************************************************************)
NoDuplicates(seq) == \A i, j \in 1..Len(seq) : seq[i] = seq[j] => i = j

C18_NoDuplicates ==
    self # None =>
        (NoDuplicates(self[1].tags) /\ NoDuplicates(self[1].files_affected))

(***************************************************************************)
(* C19: from_dict(e.to_dict()) equals e field by field, for every Entry e, *)
(* entries with empty lists and absent optional fields included.           *)
(***************************************************************************)
C19_DictRoundTrip ==
    self # None =>
        \A uuid \in Uuids : FromDict(ToDict(self[1]), NowIso, uuid) = self[1]

\* an Entry with no optional field, whose last tag has just been removed
C19_Witness ==
    /\ self # None
    /\ last_call.op = "remove_tag" /\ last_call.ret = "True"
    /\ self[1].tags = <<>> /\ self[1].files_affected = <<>>
    /\ self[1].llm_context = None /\ self[1].git_info = None
    /\ self[1].timestamp # NowIso /\ self[1].entry_id \notin Uuids

(***************************************************************************)
(* C20: during a chunked write the segment files are written in increasing *)
(* part number: every step leaves the files already written as they are    *)
(* and adds at most the next part, so the segment files on disk are always *)
(* part1..partj; a failed write ends the call with the error, and the      *)
(* segments written before it stay on disk.                                *)
(***************************************************************************)
Failed == result # None /\ result[1].kind = "error"

C20_PrefixOnDisk ==
    [][MustSplit =>
          /\ Len(files') >= Len(files)
          /\ SubSeq(files', 1, Len(files)) = files
          /\ Len(files') <= Len(files) + 1
          /\ \A k \in 1..Len(files') : files'[k].name = SegmentName(k)
          /\ Failed' => pc' = "done"
          /\ Failed => files' = files]_vars

\* the write of a part after the second failed: the call ended with the
\* error, and the earlier segments are on disk
C20_Witness ==
    /\ MustSplit /\ Failed /\ pc = "done"
    /\ Len(files) >= 2
    /\ Len(files) < Len(parts)
    /\ \A k \in 1..Len(files) : files[k].text = parts[k]

(***************************************************************************)
(* Readings of the project store.                                          *)
(***************************************************************************)
\* the call that has just returned or raised, in a step of the store
Called(name) == clock' = clock + 1 /\ last_op'.op = name

\* the last call returned this boolean
ReturnedBool(b) == last_op.ret.kind = "value" /\ last_op.ret.value = b

\* the keys of a stored entry that update_entry may write when asked to
Updatable == {"title", "content", "tags", "files_affected", "llm_context"}

\* the keys of a stored entry that no update may write
Fixed == {"id", "type", "git_info", "related_entries"}

\* the stored entries with the id
Stored(data, entry_id) ==
    {i \in 1..Len(data.entries) : data.entries[i].id = entry_id}

(***************************************************************************)
(* C21: update_entry on an id that is in the store leaves the length of    *)
(* the stored list, total_entries and every other stored entry as they     *)
(* were; the entry stays at its position and keeps its id, type, git_info  *)
(* and related_entries, and every one of title, content, tags,             *)
(* files_affected, llm_context that was not passed; a passed one holds the *)
(* passed value.                                                           *)
(***************************************************************************)
C21_UpdateFrame ==
    [][(Called("update_entry") /\ Stored(store, last_op'.args.entry_id) # {}) =>
        LET kwargs == last_op'.args.kwargs
            i == CHOOSE k \in Stored(store, last_op'.args.entry_id) : TRUE
        IN  /\ Len(store'.entries) = Len(store.entries)
            /\ store'.total_entries = store.total_entries
            /\ \A j \in 1..Len(store.entries) :
                   j # i => store'.entries[j] = store.entries[j]
            /\ DOMAIN store'.entries[i] = DOMAIN store.entries[i]
            /\ \A f \in Fixed : store'.entries[i][f] = store.entries[i][f]
            /\ \A f \in Updatable :
                   \/ store'.entries[i][f] = store.entries[i][f]
                   \/ /\ f \in DOMAIN kwargs
                      /\ store'.entries[i][f] = kwargs[f]]_vars

\* the first of two stored entries was updated with keywords that name
\* fields outside the allowed ones
C21_Witness ==
    /\ last_op.op = "update_entry"
    /\ ReturnedBool(TRUE)
    /\ Len(store.entries) = 2
    /\ Stored(store, last_op.args.entry_id) = {1}
    /\ "entry_type" \in DOMAIN last_op.args.kwargs
    /\ store.entries[1].timestamp = NowUtc(clock - 1)

\* the stored entry passes the filters of the listing that was made
Passes(d, a) ==
    /\ (a.entry_type \in {None, Some("")} \/ d.type = a.entry_type[1])
    /\ (a.tags \in {None, Some(<<>>)} \/
            \E k \in 1..Len(a.tags[1]) : \E j \in 1..Len(d.tags) :
                d.tags[j] = a.tags[1][k])
    /\ (a.search \in {None, Some("")} \/ MatchesSearch(FromDict(d, "", ""), a.search[1]))

\* the positions in the store of the entries that pass, in stored order
RECURSIVE PassingFrom(_, _)
PassingFrom(i, a) ==
    IF i > Len(store.entries) THEN <<>>
    ELSE IF Passes(store.entries[i], a) THEN <<i>> \o PassingFrom(i + 1, a)
    ELSE PassingFrom(i + 1, a)

\* the ids of the listed entries, in the order of the list
ListedIds == [k \in 1..Len(last_op.ret.value) |-> last_op.ret.value[k].entry_id]

\* MemorySystem.list_entries has returned
Listed == last_op.op = "list_entries" /\ last_op.ret.kind = "value"

(***************************************************************************)
(* C22: when a limit is given, list_entries returns at most limit entries: *)
(* the last limit of the stored entries that pass the other filters, in    *)
(* stored order, and all of them when fewer pass.                          *)
(***************************************************************************)
C22_LastLimit ==
    (Listed /\ last_op.args.limit # None) =>
        LET limit == last_op.args.limit[1]
            passing == PassingFrom(1, last_op.args)
            kept == Min2(Max2(limit, 0), Len(passing))
        IN  /\ Len(ListedIds) <= Max2(limit, 0)
            /\ ListedIds = [k \in 1..kept |->
                               store.entries[passing[Len(passing) - kept + k]].id]

(***************************************************************************)
(* C23: tools.list.list_entries called with offset = k and stats false     *)
(* does not raise, and, no limit given, returns the stored entries that    *)
(* pass the filters without the first k of them, for every k >= 0.         *)
(***************************************************************************)
C23_Offset ==
    last_op.op = "tools.list_entries" =>
        /\ last_op.ret.kind = "value"
        /\ last_op.args.limit = None =>
               LET passing == PassingFrom(1, last_op.args)
                   k == Min2(last_op.args.offset, Len(passing))
               IN  ListedIds = [j \in 1..(Len(passing) - k) |->
                                   store.entries[passing[k + j]].id]

(***************************************************************************)
(* C24: update_entry and delete_entry with an id that is not in the store  *)
(* return False and leave the stored entries and the metadata as they      *)
(* were; with an id that is in the store they return True, and             *)
(* delete_entry removes that entry and no other, the others keeping their  *)
(* order.                                                                  *)
(***************************************************************************)
C24_MissingAndFound ==
    [][(Called("update_entry") \/ Called("delete_entry")) =>
        LET at == Stored(store, last_op'.args.entry_id) IN
        IF at = {}
        THEN /\ last_op'.ret.kind = "value"
             /\ last_op'.ret.value = FALSE
             /\ store' = store
        ELSE /\ last_op'.ret.kind = "value"
             /\ last_op'.ret.value = TRUE
             /\ Called("delete_entry") =>
                    \E i \in at :
                        /\ Len(store'.entries) = Len(store.entries) - 1
                        /\ \A j \in 1..(i - 1) : store'.entries[j] = store.entries[j]
                        /\ \A j \in i..Len(store'.entries) :
                               store'.entries[j] = store.entries[j + 1]]_vars

\* the first of two stored entries was deleted
C24_Witness ==
    /\ last_op.op = "delete_entry"
    /\ ReturnedBool(TRUE)
    /\ last_op.args.entry_id = Uuid4(0)
    /\ Len(store.entries) = 1
    /\ store.entries[1].id = Uuid4(1)

\* the last call raised this exception
RaisedError(what) == last_op.ret.kind = "error" /\ last_op.ret.value = what

(***************************************************************************)
(* C25: after any sequence of create_entry, update_entry and delete_entry  *)
(* on a store that starts empty, the type of every stored entry is one of  *)
(* decision, change, context, bug, feature, note; create_entry with        *)
(* another type raises ValueError and leaves the store as it was.          *)
(***************************************************************************)
C25_ValidTypes ==
    [][/\ \A i \in 1..Len(store'.entries) :
              store'.entries[i].type \in
                  {"decision", "change", "context", "bug", "feature", "note"}
       /\ (Called("create_entry") /\ last_op'.args.entry_type \notin
               {"decision", "change", "context", "bug", "feature", "note"}) =>
              /\ last_op'.ret.kind = "error"
              /\ last_op'.ret.value = "ValueError"
              /\ store' = store]_vars

\* create_entry was called with type "task" on a store that holds one
\* entry, which was updated before
C25_Witness ==
    /\ last_op.op = "create_entry"
    /\ last_op.args.entry_type = "task"
    /\ RaisedError("ValueError")
    /\ Len(store.entries) = 1
    /\ store.entries[1].timestamp = NowUtc(1)

(***************************************************************************)
(* C26: for every document and every max_chars >= 1, every iteration of    *)
(* the split loop moves start forward and appends one segment that is not  *)
(* empty, also when the window opens with a boundary marker; and the loop  *)
(* ends: once entered, the write loop is reached.                          *)
(***************************************************************************)
C26_LoopEnds ==
    /\ [][(pc = "split" /\ pc' \in {"split", "write"}) =>
            /\ max_chars >= 1
            /\ start' > start
            /\ start' <= Len(content)
            /\ Len(parts') = Len(parts) + 1
            /\ parts'[Len(parts')] # ""]_vars
    /\ (pc = "split") ~> (pc = "write")

\* three segments were cut, and the second opens with the marker at which
\* the first cut was made
C26_Witness ==
    /\ pc = "write"
    /\ Len(parts) >= 3
    /\ \E m \in Markers : StartsWith(parts[2], m)

\* chunked is true and max_chars or max_tokens is positive
AskedToSplit == chunked /\ (Positive(arg_max_chars) \/ Positive(arg_max_tokens))

\* the document the renderer of the format builds
WholeDocument ==
    IF output_format = "markdown"
    THEN BuildMarkdownContent(entries, include_git, group_by)
    ELSE BuildTextContent(entries, include_git, group_by)

(***************************************************************************)
(* C27: an export_for_llm in markdown or text that returns has written     *)
(* more than one file only if chunked is true and max_chars or max_tokens  *)
(* is positive; otherwise it has written one file, named {stem}.{ext},     *)
(* that holds the whole document.                                          *)
(***************************************************************************)
C27_SplitOnlyWhenAsked ==
    (Returned /\ output_format \in {"markdown", "text"}) =>
        /\ Len(files) > 1 => AskedToSplit
        /\ ~AskedToSplit =>
               /\ Len(files) = 1
               /\ files[1].name = filename_base \o "." \o
                      (IF output_format = "markdown" THEN "md" ELSE "txt")
               /\ files[1].text = WholeDocument
               /\ result[1].value = files[1].name

\* chunked is false, max_chars is positive and below the length of the
\* document, and one file was written
C27_Witness ==
    /\ Returned /\ output_format = "text"
    /\ ~chunked
    /\ Positive(arg_max_chars)
    /\ Len(WholeDocument) > arg_max_chars[1]
    /\ arg_max_tokens = None
    /\ Len(files) = 1

(***************************************************************************)
(* C28: after any sequence of create_entry, update_entry and delete_entry  *)
(* on a freshly initialized store, metadata.total_entries is the number of *)
(* stored entries, and no two stored entries have the same id.             *)
(***************************************************************************)
C28_CountAndIds ==
    /\ store.total_entries = Len(store.entries)
    /\ \A i, j \in 1..Len(store.entries) :
           store.entries[i].id = store.entries[j].id => i = j

\* two entries were created and the second one deleted
C28_Witness ==
    /\ last_op.op = "delete_entry"
    /\ ReturnedBool(TRUE)
    /\ last_op.args.entry_id = Uuid4(1)
    /\ store.total_entries = 1
    /\ store.entries[1].id = Uuid4(0)

(***************************************************************************)
(* C29 as stated: after any sequence of create_entry and update_entry on a *)
(* store that starts empty, the content of every stored entry, and its     *)
(* llm_context when it has one, is at most system.max_content_length       *)
(* characters long: no call stores a longer value.                         *)
(***************************************************************************)
C29_LengthBound ==
    \A i \in 1..Len(store.entries) :
        /\ Len(store.entries[i].content) <= MaxContentLength
        /\ store.entries[i].llm_context # None =>
               Len(store.entries[i].llm_context[1]) <= MaxContentLength

\* the invocation p has returned an id
ProcReturned(p) ==
    procs[p].pc = "done" /\ procs[p].ret # None /\ procs[p].ret[1].kind = "value"

(***************************************************************************)
(* C30 as stated: once two create_entry invocations whose load, append and *)
(* save steps interleave have both returned, the entries of both are in    *)
(* the persisted store, and metadata.total_entries is the number of        *)
(* persisted entries.                                                      *)
(***************************************************************************)
C30_BothPresent ==
    (procs # <<>> /\ \A p \in DOMAIN procs : ProcReturned(p)) =>
        /\ \A p \in DOMAIN procs :
               Cardinality(Stored(store, procs[p].ret[1].value)) = 1
        /\ store.total_entries = Len(store.entries)

====
